---- MODULE Spec2Model ----
(***************************************************************************)
(* BTune (Blosc/BTune): the tuning state machine of src/btune/btune.c.     *)
(*                                                                         *)
(* The tuner is owned by a host compression context and is driven          *)
(* sequentially: btune_init once, then for each chunk btune_next_cparams,  *)
(* the host's compression, and btune_update.  The state of the model is    *)
(* the btune_struct, the fields of the host contexts that the tuner reads  *)
(* or writes, and the position of the host between the two calls.          *)
(*                                                                         *)
(* Times are integers counted in ticks of 1 / (BTUNE_KB * bandwidth)       *)
(* seconds, so that the score of score_function is the integer             *)
(* ctime + cbytes + dtime; a compression ratio or a coefficient is the     *)
(* pair <<numerator, denominator>> of the division the code performs.      *)
(***************************************************************************)
EXTENDS Integers, Sequences, FiniteSets, TLC

VARIABLES
  btune,   \* the btune_struct hanging from cctx->btune_params
  cctx,    \* the host compression context (blosc2_context)
  dctx,    \* the host decompression context, or NoDctx
  host,    \* the host: which call comes next, chunks appended, predictor outcome
  hist     \* history of the readapt schedule (not read by any action)

vars == <<btune, cctx, dctx, host, hist>>

NULL == "NULL"

\* The decompression context the host did not give (a NULL dctx).
NoDctx == [ present |-> FALSE, nthreads |-> 0, new_nthreads |-> 0 ]

---------------------------------------------------------------------------
(* Constants of btune.c and of the blosc2 headers it uses.                 *)

BTUNE_KB == 1024
MAX_CLEVEL == 9
MIN_BLOCK == 16384
MAX_BLOCK == 2097152
MIN_BITSHUFFLE == 1
MIN_SHUFFLE == 2
MAX_SHUFFLE == 16
MIN_THREADS == 1
SOFT_STEP_SIZE == 1
HARD_STEP_SIZE == 2
MAX_STATE_THREADS == 50

BTUNE_DISABLE_SHUFFLESIZE == TRUE
BTUNE_DISABLE_BLOCKSIZE == TRUE
BTUNE_DISABLE_MEMCPY == TRUE
BTUNE_DISABLE_THREADS == TRUE

BLOSC_BLOSCLZ == 0
BLOSC_LZ4 == 1
BLOSC_LZ4HC == 2
BLOSC_ZLIB == 4
BLOSC_ZSTD == 5

BLOSC_NOFILTER == 0
BLOSC_SHUFFLE == 1
BLOSC_BITSHUFFLE == 2
BLOSC_FILTER_BYTEDELTA == 35

BLOSC_ALWAYS_SPLIT == 1
BLOSC_NEVER_SPLIT == 2
BLOSC_FORWARD_COMPAT_SPLIT == 4

BLOSC2_MAX_OVERHEAD == 32
BLOSC_MIN_BUFFERSIZE == 32
L1 == 32768

\* btune_state, readapt_type and the enumerations of the configuration
CODEC_FILTER == "CODEC_FILTER"
SHUFFLE_SIZE == "SHUFFLE_SIZE"
THREADS == "THREADS"
CLEVEL == "CLEVEL"
BLOCKSIZE == "BLOCKSIZE"
MEMCPY == "MEMCPY"
WAITING == "WAITING"
STOP == "STOP"

WAIT == "WAIT"
SOFT == "SOFT"
HARD == "HARD"

BTUNE_STOP == "BTUNE_STOP"
BTUNE_REPEAT_SOFT == "BTUNE_REPEAT_SOFT"
BTUNE_REPEAT_ALL == "BTUNE_REPEAT_ALL"

BTUNE_COMP_HSP == "BTUNE_COMP_HSP"
BTUNE_COMP_BALANCED == "BTUNE_COMP_BALANCED"
BTUNE_COMP_HCR == "BTUNE_COMP_HCR"

BTUNE_PERF_COMP == "BTUNE_PERF_COMP"
BTUNE_PERF_DECOMP == "BTUNE_PERF_DECOMP"
BTUNE_PERF_BALANCED == "BTUNE_PERF_BALANCED"

---------------------------------------------------------------------------
(* Bounds of the model.                                                    *)

MaxWaits == 2        \* nwaits_before_readapt ranges over 0 .. MaxWaits
MaxSofts == 2        \* nsofts_before_hard ranges over 0 .. MaxSofts
MaxHards == 2        \* nhards_before_stop ranges over 0 .. MaxHards
CapHards == 3        \* the host stops feeding chunks once nhards exceeds it
CapSofts == 5        \* ... or nsofts exceeds it
CapWaitings == 6     \* ... or nwaitings exceeds it
Bandwidth == 1       \* config.bandwidth, in kB/s

SourceSize == 1024               \* cctx->sourcesize of every chunk
HostBlocksize == 8192            \* cctx->blocksize given by the host (main.c)
CBytesSet == {36, 256, 512}      \* cctx->destsize after a compression
CTimeSet == {64}                 \* ctime, in ticks

---------------------------------------------------------------------------
(* cparams_btune                                                           *)

\* Seconds to ticks of 1 / (BTUNE_KB * bandwidth) s.
Ticks(bandwidth, secs) == secs * BTUNE_KB * bandwidth

cparams_btune_default(bandwidth) ==
  [ compcode |-> BLOSC_LZ4,
    filter |-> BLOSC_SHUFFLE,
    splitmode |-> BLOSC_ALWAYS_SPLIT,
    clevel |-> 9,
    blocksize |-> 0,
    shufflesize |-> 0,
    nthreads_comp |-> 0,
    nthreads_decomp |-> 0,
    increasing_clevel |-> FALSE,
    increasing_block |-> TRUE,
    increasing_shuffle |-> TRUE,
    increasing_nthreads |-> FALSE,
    score |-> Ticks(bandwidth, 100),
    cratio |-> <<1, 1>>,
    ctime |-> Ticks(bandwidth, 100),
    dtime |-> Ticks(bandwidth, 100) ]

BTUNE_CONFIG_DEFAULTS ==
  [ bandwidth |-> Bandwidth,
    perf_mode |-> BTUNE_PERF_BALANCED,
    comp_mode |-> BTUNE_COMP_BALANCED,
    behaviour |-> [ nwaits_before_readapt |-> 0,
                    nsofts_before_hard |-> 5,
                    nhards_before_stop |-> 1,
                    repeat_mode |-> BTUNE_STOP ],
    cparams_hint |-> FALSE ]

---------------------------------------------------------------------------
(* Helpers of btune.c, as functions of the btune_struct b.                 *)

InSeq(s, x) == \E i \in 1..Len(s) : s[i] = x

add_codec(b, compcode) ==
  IF InSeq(b.codecs, compcode) THEN b
  ELSE [b EXCEPT !.codecs = Append(@, compcode)]

add_filter(b, filter) ==
  IF InSeq(b.filters, filter) THEN b
  ELSE [b EXCEPT !.filters = Append(@, filter)]

\* Mutant: the codecs of the other modes are added in HCR as well.
btune_init_codecs_without_else(b) ==
  LET b0 == IF b.config.comp_mode = BTUNE_COMP_HCR
            THEN add_codec(add_codec(b, BLOSC_ZSTD), BLOSC_ZLIB) ELSE b
      b1 == add_codec(b0, BLOSC_LZ4)
      b2 == IF b.config.comp_mode = BTUNE_COMP_BALANCED
            THEN add_codec(b1, BLOSC_BLOSCLZ) ELSE b1
  IN IF b.config.perf_mode = BTUNE_PERF_DECOMP
     THEN add_codec(b2, BLOSC_LZ4HC) ELSE b2

\* Mutant: BLOSCLZ is given its chance in perf_mode BALANCED.
btune_init_codecs_perf_balanced(b) ==
  IF b.config.comp_mode = BTUNE_COMP_HCR
  THEN add_codec(add_codec(b, BLOSC_ZSTD), BLOSC_ZLIB)
  ELSE LET b1 == add_codec(b, BLOSC_LZ4)
           b2 == IF b.config.perf_mode = BTUNE_PERF_BALANCED
                 THEN add_codec(b1, BLOSC_BLOSCLZ) ELSE b1
       IN IF b.config.perf_mode = BTUNE_PERF_DECOMP
          THEN add_codec(b2, BLOSC_LZ4HC) ELSE b2

\* blosc2_list_compressors() of a full build lists zstd and zlib.
btune_init_codecs(b) ==
  IF b.config.comp_mode = BTUNE_COMP_HCR
  THEN add_codec(add_codec(b, BLOSC_ZSTD), BLOSC_ZLIB)
  ELSE LET b1 == add_codec(b, BLOSC_LZ4)
           b2 == IF b.config.comp_mode = BTUNE_COMP_BALANCED
                 THEN add_codec(b1, BLOSC_BLOSCLZ) ELSE b1
       IN IF b.config.perf_mode = BTUNE_PERF_DECOMP
          THEN add_codec(b2, BLOSC_LZ4HC) ELSE b2

\* The cparams_btune cp with the parameters of the host context c written in.
extract_btune_cparams(b, c, d, cp) ==
  [cp EXCEPT !.compcode = c.compcode,
             !.filter = c.filter,
             !.clevel = c.clevel,
             !.splitmode = c.splitmode,
             !.blocksize = c.blocksize,
             !.shufflesize = c.typesize,
             !.nthreads_comp = c.nthreads,
             !.nthreads_decomp = IF d = NoDctx THEN b.nthreads_decomp
                                 ELSE d.nthreads]

has_ended_clevel(b) ==
  \/ b.best.increasing_clevel /\ b.best.clevel >= MAX_CLEVEL - b.step_size
  \/ ~b.best.increasing_clevel /\ b.best.clevel <= 1 + b.step_size

has_ended_shuffle(best) ==
  LET min_shuffle == IF best.filter = BLOSC_SHUFFLE THEN MIN_SHUFFLE
                     ELSE MIN_BITSHUFFLE
  IN \/ best.increasing_shuffle /\ best.shufflesize = MAX_SHUFFLE
     \/ ~best.increasing_shuffle /\ best.shufflesize = min_shuffle

has_ended_threads(b) ==
  LET nthreads == IF b.threads_for_comp THEN b.best.nthreads_comp
                  ELSE b.best.nthreads_decomp
  IN \/ b.best.increasing_nthreads /\ nthreads = b.max_threads
     \/ ~b.best.increasing_nthreads /\ nthreads = MIN_THREADS

\* x >> n and x << n on non-negative integers
Shr(x, n) == x \div (2 ^ n)
Shl(x, n) == x * (2 ^ n)

has_ended_blocksize(b, c) ==
  \/ b.best.increasing_block
     /\ \/ b.best.blocksize > Shr(MAX_BLOCK, b.step_size)
        \/ b.best.blocksize > Shr(c.sourcesize, b.step_size)
  \/ ~b.best.increasing_block
     /\ b.best.blocksize < Shl(MIN_BLOCK, b.step_size)

init_soft(b) ==
  LET b1 == IF has_ended_clevel(b)
            THEN [b EXCEPT !.best.increasing_clevel = ~@] ELSE b
  IN [b1 EXCEPT !.state = CLEVEL,
                !.step_size = SOFT_STEP_SIZE,
                !.readapt_from = SOFT]

init_hard(b) ==
  LET b1 == [b EXCEPT !.state = CODEC_FILTER,
                      !.step_size = HARD_STEP_SIZE,
                      !.readapt_from = HARD,
                      !.threads_for_comp =
                         (b.config.perf_mode # BTUNE_PERF_DECOMP)]
  IN IF has_ended_shuffle(b1.best)
     THEN [b1 EXCEPT !.best.increasing_shuffle = ~@] ELSE b1

\* minimum_hards of process_waiting_state and init_without_hards: the seed
\* hard readapt, made when there is no hint.
minimum_hards(b) == IF b.config.cparams_hint THEN 0 ELSE 1

\* The switch falls through from REPEAT_ALL to REPEAT_SOFT to STOP.
init_without_hards(b) ==
  LET behaviour == b.config.behaviour
      stop_case == IF minimum_hards(b) = 0 /\ behaviour.nsofts_before_hard > 0
                   THEN init_soft(b)
                   ELSE [b EXCEPT !.state = STOP, !.readapt_from = WAIT]
      soft_case == IF behaviour.nsofts_before_hard > 0
                   THEN init_soft(b) ELSE stop_case
      all_case == IF behaviour.nhards_before_stop > minimum_hards(b)
                  THEN init_hard(b) ELSE soft_case
      b1 == CASE behaviour.repeat_mode = BTUNE_REPEAT_ALL -> all_case
              [] behaviour.repeat_mode = BTUNE_REPEAT_SOFT -> soft_case
              [] behaviour.repeat_mode = BTUNE_STOP -> stop_case
              [] OTHER -> b
  IN [b1 EXCEPT !.is_repeating = TRUE]


\* btune_struct after calloc: every field zero (enum 0, false, empty list).
calloc_btune ==
  [ config |-> NULL,
    codecs |-> <<>>,
    filters |-> <<>>,
    best |-> NULL,
    aux_cparams |-> NULL,
    aux_index |-> 0,
    state |-> CODEC_FILTER,
    step_size |-> 0,
    nwaitings |-> 0,
    nsofts |-> 0,
    nhards |-> 0,
    is_repeating |-> FALSE,
    readapt_from |-> WAIT,
    max_threads |-> 0,
    has_dctx |-> FALSE,
    nthreads_decomp |-> 0,
    threads_for_comp |-> FALSE ]

\* btune_init without cparams_hint: the seed hard readapt, which is not
\* counted among the nhards_before_stop of the configuration.
btune_init_without_hint(b) ==
  [init_hard(b) EXCEPT !.config.behaviour.nhards_before_stop = @ + 1]

\* Mutant: max_threads taken from the compression context alone.
init_max_threads_of_cctx(c, d) == c.nthreads

\* max_threads of btune_init: the larger thread count of the two contexts.
init_max_threads(c, d) ==
  IF d # NoDctx
  THEN IF c.nthreads > d.nthreads THEN c.nthreads ELSE d.nthreads
  ELSE c.nthreads

\* btune_init(config, cctx, dctx): the btune_struct it leaves in cctx.
\* steps_count (written, never read), rep_index (0 outside btune_update) and
\* the one-sample arrays current_scores/current_cratios are not kept.
\* The body of btune_init: config is the configuration copied into
\* btune->config, cparams_hint is what "config->cparams_hint" reads through
\* the pointer of the caller.
btune_init_body(config, cparams_hint, c, d) ==
  LET b0 == [calloc_btune EXCEPT !.config = config, !.has_dctx = (d # NoDctx)]
      b1 == add_filter(add_filter(add_filter(btune_init_codecs(b0),
                 BLOSC_NOFILTER), BLOSC_SHUFFLE), BLOSC_BITSHUFFLE)
      dthreads == IF d # NoDctx THEN d.nthreads ELSE c.nthreads
      cp == [cparams_btune_default(config.bandwidth) EXCEPT
                !.compcode = b1.codecs[1],
                !.clevel = IF config.comp_mode = BTUNE_COMP_HCR THEN 8 ELSE @,
                !.shufflesize = c.typesize,
                !.nthreads_comp = c.nthreads,
                !.nthreads_decomp = dthreads]
      b2 == [b1 EXCEPT
                !.best = cp,
                !.aux_cparams = cp,
                !.max_threads = init_max_threads(c, d),
                !.nthreads_decomp = dthreads,
                !.threads_for_comp = (config.perf_mode # BTUNE_PERF_DECOMP)]
      hinted == add_codec([b2 EXCEPT
                  !.best = extract_btune_cparams(b2, c, d, b2.best),
                  !.aux_cparams = extract_btune_cparams(b2, c, d, b2.aux_cparams)],
                  c.compcode)
      b3 == IF cparams_hint
            THEN IF config.behaviour.nhards_before_stop > 0
                 THEN IF config.behaviour.nsofts_before_hard > 0
                      THEN init_soft(hinted)
                      ELSE IF config.behaviour.nwaits_before_readapt > 0
                           THEN [hinted EXCEPT !.state = WAITING,
                                               !.readapt_from = WAIT]
                           ELSE init_hard(hinted)
                 ELSE init_without_hards(hinted)
            ELSE btune_init_without_hint(b2)
  IN [b3 EXCEPT !.step_size =
         IF b3.config.behaviour.nhards_before_stop = 1
         THEN SOFT_STEP_SIZE ELSE HARD_STEP_SIZE]

\* btune_init(config, cctx, dctx) with a configuration: the btune_struct it
\* leaves in cctx.
btune_init(config, c, d) ==
  btune_init_body(config, config.cparams_hint, c, d)

\* Whether the codec of the context is meant for high compression ratios.
is_HCR(c) ==
  CASE c.compcode = BLOSC_BLOSCLZ -> FALSE
    [] c.compcode = BLOSC_LZ4 -> c.filter = BLOSC_BITSHUFFLE
    [] c.compcode \in {BLOSC_LZ4HC, BLOSC_ZLIB, BLOSC_ZSTD} -> TRUE
    [] OTHER -> FALSE

\* The body of btune_next_blocksize after its BTUNE_DISABLE_BLOCKSIZE test:
\* the automatic blocksize from clevel, typesize and the source size.
blocksize_of(c) ==
  LET clevel == c.clevel
      typesize == c.typesize
      nbytes == c.sourcesize
      user_blocksize == c.blocksize
      b1 == IF user_blocksize # 0
            THEN IF user_blocksize < BLOSC_MIN_BUFFERSIZE
                 THEN BLOSC_MIN_BUFFERSIZE ELSE user_blocksize
            ELSE IF nbytes >= L1
                 THEN LET x == IF is_HCR(c) THEN L1 * 2 ELSE L1
                      IN CASE clevel = 0 -> x \div 4
                           [] clevel = 1 -> x \div 2
                           [] clevel = 2 -> x
                           [] clevel = 3 -> x * 2
                           [] clevel \in {4, 5} -> x * 4
                           [] clevel \in {6, 7, 8} -> x * 8
                           [] clevel = 9 -> IF is_HCR(c) THEN x * 16 ELSE x * 8
                           [] OTHER -> x
                 ELSE nbytes
      b2 == IF clevel > 0
            THEN LET y == (IF b1 > 65536 THEN 65536 ELSE b1) * typesize
                 IN IF y < 65536 THEN 65536 ELSE y
            ELSE b1
      b3 == IF b2 > nbytes THEN nbytes ELSE b2
  IN IF nbytes < typesize THEN 1
     ELSE IF b3 > typesize THEN (b3 \div typesize) * typesize ELSE b3

\* Compiled with BTUNE_DISABLE_BLOCKSIZE, the function returns at once.
btune_next_blocksize(c) ==
  IF BTUNE_DISABLE_BLOCKSIZE THEN c
  ELSE [c EXCEPT !.blocksize = blocksize_of(c)]

\* set_btune_cparams(context, cparams): the parameters go into the host
\* contexts; the clevel caps and the blocksize go back into cparams, which
\* is btune->aux_cparams.  Returns the three objects it touches.
set_btune_cparams(b, c, d, cp) ==
  LET c1 == IF cp.filter = BLOSC_FILTER_BYTEDELTA
            THEN [c EXCEPT !.compcode = cp.compcode,
                           !.filter_prev = BLOSC_SHUFFLE,
                           !.filter = BLOSC_FILTER_BYTEDELTA,
                           !.filter_meta = c.schunk_typesize]
            ELSE [c EXCEPT !.compcode = cp.compcode,
                           !.filter_prev = 0,
                           !.filter = cp.filter]
      c2 == [c1 EXCEPT !.splitmode = cp.splitmode, !.clevel = cp.clevel]
      cp1 == IF /\ b.config.comp_mode = BTUNE_COMP_BALANCED
                /\ cp.compcode \in {BLOSC_ZSTD, BLOSC_ZLIB}
                /\ cp.clevel >= 3
             THEN [cp EXCEPT !.clevel = 3] ELSE cp
      cp2 == IF b.config.comp_mode = BTUNE_COMP_HCR /\ cp1.clevel >= 6
             THEN [cp1 EXCEPT !.clevel = 6] ELSE cp1
      c3 == IF cp2.blocksize # 0
            THEN [c2 EXCEPT !.blocksize = cp2.blocksize]
            ELSE btune_next_blocksize(c2)
      cp3 == [cp2 EXCEPT !.blocksize = c3.blocksize]
      c4 == [c3 EXCEPT !.typesize = cp3.shufflesize,
                       !.new_nthreads = cp3.nthreads_comp]
  IN [ b |-> [b EXCEPT !.aux_cparams = cp3,
                       !.nthreads_decomp =
                          IF d # NoDctx THEN @ ELSE cp3.nthreads_decomp],
       c |-> c4,
       d |-> IF d # NoDctx THEN [d EXCEPT !.new_nthreads = cp3.nthreads_decomp]
             ELSE d ]

\* btune_model_inference: the category voted by the predictor for chunk 0
\* (0 .. 14), or an error.  The (codec, filter) pair of a category.
category_codecs == <<BLOSC_BLOSCLZ, BLOSC_LZ4, BLOSC_LZ4HC, BLOSC_ZLIB, BLOSC_ZSTD>>
category_filters == <<BLOSC_NOFILTER, BLOSC_SHUFFLE, BLOSC_BITSHUFFLE>>

btune_model_inference(inference) ==
  IF inference \in 0..14
  THEN [ error |-> 0,
         compcode |-> category_codecs[(inference % 5) + 1],
         filter |-> category_filters[(inference \div 5) + 1] ]
  ELSE [ error |-> -1, compcode |-> -1, filter |-> 0 ]

\* Mutant: the clevel is decreased without the test "clevel > step_size".
next_clevel_no_floor(cparams, step_size) ==
  IF cparams.increasing_clevel
  THEN IF cparams.clevel <= MAX_CLEVEL - step_size
       THEN LET cl == cparams.clevel + step_size
            IN [cparams EXCEPT !.clevel =
                  IF cl = 9 /\ cparams.compcode = BLOSC_ZSTD THEN 8 ELSE cl]
       ELSE cparams
  ELSE [cparams EXCEPT !.clevel = @ - step_size]

\* case CLEVEL of btune_next_cparams: one step of clevel in the direction of
\* increasing_clevel, within 1 .. MAX_CLEVEL, and never ZSTD at clevel 9.
next_clevel(cparams, step_size) ==
  IF cparams.increasing_clevel
  THEN IF cparams.clevel <= MAX_CLEVEL - step_size
       THEN LET cl == cparams.clevel + step_size
            IN [cparams EXCEPT !.clevel =
                  IF cl = 9 /\ cparams.compcode = BLOSC_ZSTD THEN 8 ELSE cl]
       ELSE cparams
  ELSE IF cparams.clevel > step_size
       THEN [cparams EXCEPT !.clevel = @ - step_size] ELSE cparams

\* The trial that the state proposes, written over aux_cparams.
next_trial(b, c) ==
  LET cparams == b.aux_cparams
      idx == b.aux_index
  IN CASE b.state = CODEC_FILTER ->
            LET n_filters_splits == Len(b.filters) * 2
                compcode == b.codecs[(idx \div n_filters_splits) + 1]
                cp1 == [cparams EXCEPT
                          !.compcode = compcode,
                          !.filter = b.filters[((idx % n_filters_splits) \div 2) + 1],
                          !.splitmode = (idx % 2) + 1]
            IN IF /\ b.config.perf_mode \in {BTUNE_PERF_COMP, BTUNE_PERF_BALANCED}
                  /\ compcode \in {BLOSC_ZSTD, BLOSC_ZLIB}
                  /\ b.nhards = 0
               THEN [cp1 EXCEPT !.clevel = 3] ELSE cp1
       [] b.state = SHUFFLE_SIZE ->
            IF cparams.increasing_shuffle
            THEN IF cparams.shufflesize < MAX_SHUFFLE
                 THEN [cparams EXCEPT !.shufflesize = Shl(@, 1)] ELSE cparams
            ELSE LET min_shuffle == IF cparams.filter = 1 THEN MIN_SHUFFLE
                                    ELSE MIN_BITSHUFFLE
                 IN IF cparams.shufflesize > min_shuffle
                    THEN [cparams EXCEPT !.shufflesize = Shr(@, 1)] ELSE cparams
       [] b.state = THREADS ->
            LET field == IF b.threads_for_comp THEN "nthreads_comp"
                         ELSE "nthreads_decomp"
            IN IF cparams.increasing_nthreads
               THEN IF cparams[field] < b.max_threads
                    THEN [cparams EXCEPT ![field] = @ + 1] ELSE cparams
               ELSE IF cparams[field] > MIN_THREADS
                    THEN [cparams EXCEPT ![field] = @ - 1] ELSE cparams
       [] b.state = CLEVEL ->
            LET cp1 == IF b.readapt_from = HARD
                       THEN [cparams EXCEPT !.blocksize = 0] ELSE cparams
            IN next_clevel(cp1, b.step_size)
       [] b.state = BLOCKSIZE ->
            IF BTUNE_DISABLE_BLOCKSIZE THEN cparams
            ELSE LET step_factor == b.step_size - 1
                     new_block == Shl(cparams.blocksize * 1, b.step_size)
                 IN IF cparams.increasing_block
                    THEN IF /\ cparams.blocksize <= Shr(MAX_BLOCK, step_factor)
                            /\ new_block <= c.sourcesize
                         THEN [cparams EXCEPT !.blocksize = new_block] ELSE cparams
                    ELSE IF cparams.blocksize >= Shl(MIN_BLOCK, step_factor)
                         THEN [cparams EXCEPT !.blocksize = Shr(@, b.step_size)]
                         ELSE cparams
       [] b.state = MEMCPY -> [cparams EXCEPT !.clevel = 0]
       [] OTHER -> cparams

\* Mutant: btune_next_cparams without the return of case STOP.
btune_next_cparams_no_stop_return(b, c, d, h) ==
  LET inf == btune_model_inference(h.inference)
      b1 == IF h.nchunks = 0 /\ inf.error = 0
            THEN [b EXCEPT !.codecs = <<inf.compcode>>,
                           !.filters = <<inf.filter>>]
            ELSE b
      b2 == [b1 EXCEPT !.aux_cparams = b1.best]
      b3 == CASE b2.state = WAITING -> [b2 EXCEPT !.nwaitings = @ + 1]
              [] b2.state = STOP -> b2
              [] OTHER -> [b2 EXCEPT !.aux_index = @ + 1]
  IN set_btune_cparams(b3, c, d, next_trial(b2, c))

\* Mutant: btune_next_cparams without "*aux_cparams = *best".
btune_next_cparams_keeping_aux(b, c, d, h) ==
  LET inf == btune_model_inference(h.inference)
      b1 == IF h.nchunks = 0 /\ inf.error = 0
            THEN [b EXCEPT !.codecs = <<inf.compcode>>,
                           !.filters = <<inf.filter>>]
            ELSE b
  IN IF b1.state = STOP
     THEN [b |-> b1, c |-> c, d |-> d]
     ELSE LET b3 == IF b1.state = WAITING
                    THEN [b1 EXCEPT !.nwaitings = @ + 1]
                    ELSE [b1 EXCEPT !.aux_index = @ + 1]
          IN set_btune_cparams(b3, c, d, next_trial(b1, c))

\* Mutant: the answer of the predictor is taken without the test of its
\* error code.
btune_next_cparams_ignoring_error(b, c, d, h) ==
  LET inf == btune_model_inference(h.inference)
      b1 == IF h.nchunks = 0
            THEN [b EXCEPT !.codecs = <<inf.compcode>>,
                           !.filters = <<inf.filter>>]
            ELSE b
      b2 == [b1 EXCEPT !.aux_cparams = b1.best]
  IN IF b2.state = STOP
     THEN [b |-> b2, c |-> c, d |-> d]
     ELSE LET b3 == IF b2.state = WAITING
                    THEN [b2 EXCEPT !.nwaitings = @ + 1]
                    ELSE [b2 EXCEPT !.aux_index = @ + 1]
          IN set_btune_cparams(b3, c, d, next_trial(b2, c))

\* btune_next_cparams(context).  h is the host side: the super-chunk's
\* nchunks and what the predictor answers.  Returns the objects it touches.
btune_next_cparams(b, c, d, h) ==
  LET inf == btune_model_inference(h.inference)
      b1 == IF h.nchunks = 0 /\ inf.error = 0
            THEN [b EXCEPT !.codecs = <<inf.compcode>>,
                           !.filters = <<inf.filter>>]
            ELSE b
      b2 == [b1 EXCEPT !.aux_cparams = b1.best]
  IN IF b2.state = STOP
     THEN [b |-> b2, c |-> c, d |-> d]
     ELSE LET b3 == IF b2.state = WAITING
                    THEN [b2 EXCEPT !.nwaitings = @ + 1]
                    ELSE [b2 EXCEPT !.aux_index = @ + 1]
          IN set_btune_cparams(b3, c, d, next_trial(b2, c))

---------------------------------------------------------------------------
(* btune_update and the readapt scheduler.                                 *)

\* Mutant: the score of DECOMP counts the compression time.
score_function_decomp_timed(b, ctime, cbytes, dtime) ==
  CASE b.config.perf_mode = BTUNE_PERF_COMP -> ctime + cbytes
    [] b.config.perf_mode = BTUNE_PERF_DECOMP -> ctime + cbytes + dtime
    [] b.config.perf_mode = BTUNE_PERF_BALANCED -> ctime + cbytes + dtime
    [] OTHER -> -1

\* In ticks, reduced_cbytes / bandwidth is cbytes.
score_function(b, ctime, cbytes, dtime) ==
  CASE b.config.perf_mode = BTUNE_PERF_COMP -> ctime + cbytes
    [] b.config.perf_mode = BTUNE_PERF_DECOMP -> cbytes + dtime
    [] b.config.perf_mode = BTUNE_PERF_BALANCED -> ctime + cbytes + dtime
    [] OTHER -> -1

\* q > num / den, for a quotient q = <<n, d>> with n, den > 0 and d # 0
\* (d < 0 when score_function has returned -1)
Gt(q, num, den) ==
  IF q[2] > 0 THEN q[1] * den > num * q[2] ELSE q[1] * den < num * q[2]

has_improved(b, score_coef, cratio_coef) ==
  CASE b.config.comp_mode = BTUNE_COMP_HSP ->
         \/ Gt(cratio_coef, 1, 1) /\ Gt(score_coef, 1, 1)
         \/ Gt(cratio_coef, 1, 2) /\ Gt(score_coef, 2, 1)
         \/ Gt(cratio_coef, 67, 100) /\ Gt(score_coef, 13, 10)
         \/ Gt(cratio_coef, 2, 1) /\ Gt(score_coef, 7, 10)
    [] b.config.comp_mode = BTUNE_COMP_BALANCED ->
         \/ Gt(cratio_coef, 1, 1) /\ Gt(score_coef, 1, 1)
         \/ Gt(cratio_coef, 11, 10) /\ Gt(score_coef, 8, 10)
         \/ Gt(cratio_coef, 13, 10) /\ Gt(score_coef, 5, 10)
    [] b.config.comp_mode = BTUNE_COMP_HCR -> Gt(cratio_coef, 1, 1)
    [] OTHER -> FALSE

\* Mutant: the "last hard" test made on nhards as it was before nhards++.
last_hard_before_increment(h) ==
  \/ h.config.behaviour.nhards_before_stop = minimum_hards(h)
  \/ (h.nhards - 1) % h.config.behaviour.nhards_before_stop = 0

\* "Last hard (initial readapts completed)", nhards counting the hard ended.
last_hard(h) ==
  \/ h.config.behaviour.nhards_before_stop = minimum_hards(h)
  \/ h.nhards % h.config.behaviour.nhards_before_stop = 0

\* Mutant: softs follow the last hard in REPEAT_SOFT only.
repeat_softs_in_repeat_soft_only(h) ==
  /\ h.config.behaviour.nsofts_before_hard > 0
  /\ h.config.behaviour.repeat_mode = BTUNE_REPEAT_SOFT

\* "There are softs (repeat_mode no stop)"
repeat_softs(h) ==
  /\ h.config.behaviour.nsofts_before_hard > 0
  /\ h.config.behaviour.repeat_mode # BTUNE_STOP

\* case HARD of process_waiting_state past its "last hard" test, whose
\* outcome is last.
hard_ended(h, last) ==
  LET behaviour == h.config.behaviour
  IN IF last
     THEN LET r == [h EXCEPT !.is_repeating = TRUE]
          IN IF repeat_softs(r)
             THEN init_soft(r)
             ELSE IF behaviour.repeat_mode # BTUNE_REPEAT_ALL
             THEN [r EXCEPT !.state = STOP]
             ELSE IF behaviour.nwaits_before_readapt > 0
             THEN [r EXCEPT !.state = WAITING, !.readapt_from = WAIT]
             ELSE IF behaviour.nhards_before_stop > minimum_hards(r)
             THEN init_hard(r)
             ELSE [r EXCEPT !.state = STOP]
     ELSE IF behaviour.nsofts_before_hard > 0
     THEN init_soft(h)
     ELSE IF behaviour.nwaits_before_readapt > 0
     THEN [h EXCEPT !.state = WAITING, !.readapt_from = WAIT]
     ELSE init_hard(h)

\* case HARD of process_waiting_state: a hard readapt has ended.
waiting_from_hard(b) ==
  LET h == [b EXCEPT !.nhards = @ + 1]
  IN hard_ended(h, last_hard(h))

\* Mutant: "last soft" of case SOFT without the test of nsofts, so that a
\* hard readapt follows every soft readapt while hard readapts remain.
hard_after_soft_no_last_soft_test(s) ==
  /\ ~(s.is_repeating /\ s.config.behaviour.repeat_mode # BTUNE_REPEAT_ALL)
  /\ s.config.behaviour.nhards_before_stop > minimum_hards(s)

\* Mutant: "last soft" of case SOFT without the test of is_repeating.
hard_after_soft_while_repeating(s) ==
  /\ \/ s.config.behaviour.nsofts_before_hard = 0
     \/ s.nsofts % s.config.behaviour.nsofts_before_hard = 0
  /\ s.config.behaviour.nhards_before_stop > minimum_hards(s)

\* "Last soft" of case SOFT: a hard readapt is due.
hard_after_soft(s) ==
  /\ \/ s.config.behaviour.nsofts_before_hard = 0
     \/ s.nsofts % s.config.behaviour.nsofts_before_hard = 0
  /\ ~(s.is_repeating /\ s.config.behaviour.repeat_mode # BTUNE_REPEAT_ALL)
  /\ s.config.behaviour.nhards_before_stop > minimum_hards(s)

\* case SOFT of process_waiting_state: a soft readapt has ended.
waiting_from_soft(b) ==
  LET behaviour == b.config.behaviour
      s == [b EXCEPT !.nsofts = @ + 1, !.readapt_from = WAIT]
  IN IF behaviour.nwaits_before_readapt = 0
     THEN IF hard_after_soft(s)
          THEN init_hard(s)
          ELSE IF /\ minimum_hards(s) = 0
                  /\ behaviour.nhards_before_stop = 0
                  /\ s.nsofts % behaviour.nsofts_before_hard = 0
                  /\ behaviour.repeat_mode = BTUNE_STOP
          THEN [s EXCEPT !.is_repeating = TRUE, !.state = STOP]
          ELSE init_soft(s)
     ELSE s

\* Mutant: "last soft" of case WAIT without the test of nsofts.
hard_after_wait_no_last_soft_test(b) ==
  /\ ~(b.is_repeating /\ b.config.behaviour.repeat_mode # BTUNE_REPEAT_ALL)
  /\ b.config.behaviour.nhards_before_stop > minimum_hards(b)

\* "Last soft" of case WAIT: a hard readapt is due.
hard_after_wait(b) ==
  /\ \/ b.config.behaviour.nsofts_before_hard = 0
     \/ /\ b.nsofts # 0
        /\ b.nsofts % b.config.behaviour.nsofts_before_hard = 0
  /\ ~(b.is_repeating /\ b.config.behaviour.repeat_mode # BTUNE_REPEAT_ALL)
  /\ b.config.behaviour.nhards_before_stop > minimum_hards(b)

\* Mutant: the last wait stops the tuner when no readapt is left.
waiting_from_wait_stopping(b) ==
  LET behaviour == b.config.behaviour
  IN IF \/ behaviour.nwaits_before_readapt = 0
        \/ /\ b.nwaitings # 0
           /\ b.nwaitings % behaviour.nwaits_before_readapt = 0
     THEN IF hard_after_wait(b)
          THEN init_hard(b)
          ELSE IF /\ behaviour.nsofts_before_hard > 0
                  /\ ~(b.is_repeating /\ behaviour.repeat_mode = BTUNE_STOP)
          THEN init_soft(b)
          ELSE [b EXCEPT !.state = STOP]
     ELSE b

\* case WAIT of process_waiting_state: a waiting chunk has passed.
waiting_from_wait(b) ==
  LET behaviour == b.config.behaviour
  IN IF \/ behaviour.nwaits_before_readapt = 0
        \/ /\ b.nwaitings # 0
           /\ b.nwaitings % behaviour.nwaits_before_readapt = 0
     THEN IF hard_after_wait(b)
          THEN init_hard(b)
          ELSE IF /\ behaviour.nsofts_before_hard > 0
                  /\ ~(b.is_repeating /\ behaviour.repeat_mode = BTUNE_STOP)
          THEN init_soft(b)
          ELSE b
     ELSE b

\* Mutant: the last hard readapt keeps the step size of init_hard.
force_soft_step_size_never(b) == b

\* "Force soft step size on last hard", the end of process_waiting_state.
force_soft_step_size(b) ==
  IF /\ b.readapt_from = HARD
     /\ b.nhards = b.config.behaviour.nhards_before_stop - 1
  THEN [b EXCEPT !.step_size = SOFT_STEP_SIZE] ELSE b

\* process_waiting_state(b) evaluates a '%' whose divisor is zero: the one
\* of case HARD when nhards_before_stop is not minimum_hards, the second one
\* of case SOFT when the hard-readapt test has failed with a hint and no
\* hards.  The first one of case SOFT and those of case WAIT stand behind a
\* test of their divisor against zero.
modulo_by_zero(b) ==
  LET behaviour == b.config.behaviour
  IN CASE b.readapt_from = HARD ->
            /\ behaviour.nhards_before_stop # minimum_hards(b)
            /\ behaviour.nhards_before_stop = 0
       [] b.readapt_from = SOFT ->
            /\ behaviour.nwaits_before_readapt = 0
            /\ behaviour.nsofts_before_hard = 0
            /\ \/ b.is_repeating /\ behaviour.repeat_mode # BTUNE_REPEAT_ALL
               \/ ~(behaviour.nhards_before_stop > minimum_hards(b))
            /\ minimum_hards(b) = 0
            /\ behaviour.nhards_before_stop = 0
       [] OTHER -> FALSE

process_waiting_state(b) ==
  LET b1 == CASE b.readapt_from = HARD -> waiting_from_hard(b)
              [] b.readapt_from = SOFT -> waiting_from_soft(b)
              [] b.readapt_from = WAIT -> waiting_from_wait(b)
              [] OTHER -> b
  IN force_soft_step_size(b1)

\* On entering CLEVEL from THREADS: "if (has_ended_clevel) flip the direction".
flip_clevel_if_ended(b) ==
  IF has_ended_clevel(b) THEN [b EXCEPT !.best.increasing_clevel = ~@] ELSE b

\* Mutant: the CLEVEL phase ends on a failure of a later trial only.
clevel_ends_on_failure_only(b, improved, first_time) ==
  ~improved /\ ~first_time

\* "Can not change parameter or is not improving", of case CLEVEL.
clevel_ends(b, improved, first_time) ==
  has_ended_clevel(b) \/ (~improved /\ ~first_time)

\* Mutant: the enumeration ends one combination early.
last_combination_less_one(b) ==
  b.aux_index >= Len(b.codecs) * Len(b.filters) * 2 - 1

\* "Reached last combination of codec filter"
last_combination(b) ==
  b.aux_index >= Len(b.codecs) * Len(b.filters) * 2

\* Mutant: the THREADS phase is compiled in.
after_codec_filter_with_threads(b) ==
  IF BTUNE_DISABLE_SHUFFLESIZE
  THEN THREADS
  ELSE IF b.best.filter # 0 /\ b.best.shufflesize \in {0, 1, 2, 4, 8, 16, 32, 64, 128}
       THEN SHUFFLE_SIZE ELSE THREADS

\* The state that follows CODEC_FILTER when its enumeration has ended.
after_codec_filter(b) ==
  IF BTUNE_DISABLE_SHUFFLESIZE
  THEN IF BTUNE_DISABLE_THREADS THEN CLEVEL ELSE THREADS
  ELSE IF b.best.filter # 0 /\ b.best.shufflesize \in {0, 1, 2, 4, 8, 16, 32, 64, 128}
       THEN SHUFFLE_SIZE ELSE THREADS

\* The switch of update_aux: the state that follows the trial.
update_aux_switch(b, c, improved) ==
  LET first_time == (b.aux_index = 1)
  IN    CASE b.state = CODEC_FILTER ->
               IF last_combination(b)
               THEN LET x == [b EXCEPT !.aux_index = 0,
                                        !.state = after_codec_filter(b)]
                        y == IF x.state = THREADS /\ x.max_threads = 1
                             THEN flip_clevel_if_ended([x EXCEPT !.state = CLEVEL])
                             ELSE x
                    IN IF ~BTUNE_DISABLE_SHUFFLESIZE /\ y.state = SHUFFLE_SIZE
                       THEN IF has_ended_shuffle(y.best)
                            THEN [y EXCEPT !.best.increasing_shuffle = ~@] ELSE y
                       ELSE IF y.state = THREADS /\ has_ended_shuffle(y.best)
                            THEN [y EXCEPT !.best.increasing_nthreads = ~@] ELSE y
               ELSE b
          [] b.state = SHUFFLE_SIZE ->
               LET x == IF ~improved /\ first_time
                        THEN [b EXCEPT !.best.increasing_shuffle = ~@] ELSE b
               IN IF has_ended_shuffle(x.best) \/ (~improved /\ ~first_time)
                  THEN LET y == [x EXCEPT !.aux_index = 0,
                                   !.state = IF ~BTUNE_DISABLE_THREADS
                                             THEN THREADS ELSE CLEVEL]
                       IN IF y.state = THREADS /\ y.max_threads = 1
                          THEN flip_clevel_if_ended([y EXCEPT !.state = CLEVEL])
                          ELSE IF has_ended_threads(y)
                               THEN [y EXCEPT !.best.increasing_nthreads = ~@]
                               ELSE y
                  ELSE x
          [] b.state = THREADS ->
               LET first == (b.aux_index % MAX_STATE_THREADS) = 1
                   x == IF ~improved /\ first
                        THEN [b EXCEPT !.best.increasing_nthreads = ~@] ELSE b
               IN IF has_ended_threads(x) \/ (~improved /\ ~first)
                  THEN LET y == IF x.config.perf_mode = BTUNE_PERF_BALANCED
                                THEN IF x.aux_index < MAX_STATE_THREADS
                                     THEN LET z == [x EXCEPT
                                                 !.threads_for_comp = ~@,
                                                 !.aux_index = MAX_STATE_THREADS]
                                          IN IF has_ended_threads(z)
                                             THEN [z EXCEPT
                                                 !.best.increasing_nthreads = ~@]
                                             ELSE z
                                     ELSE x
                                ELSE [x EXCEPT !.aux_index = MAX_STATE_THREADS + 1]
                       IN IF y.aux_index > MAX_STATE_THREADS
                          THEN flip_clevel_if_ended(
                                 [y EXCEPT !.aux_index = 0, !.state = CLEVEL])
                          ELSE y
                  ELSE x
          [] b.state = CLEVEL ->
               LET x == IF ~improved /\ first_time
                        THEN [b EXCEPT !.best.increasing_clevel = ~@] ELSE b
               IN IF clevel_ends(x, improved, first_time)
                  THEN LET y == [x EXCEPT !.aux_index = 0,
                                   !.state = IF ~BTUNE_DISABLE_BLOCKSIZE THEN BLOCKSIZE
                                             ELSE IF ~BTUNE_DISABLE_MEMCPY THEN MEMCPY
                                             ELSE WAITING]
                       IN IF has_ended_blocksize(y, c)
                          THEN [y EXCEPT !.best.increasing_block = ~@] ELSE y
                  ELSE x
          [] b.state = BLOCKSIZE ->
               LET x == IF ~improved /\ first_time
                        THEN [b EXCEPT !.best.increasing_block = ~@] ELSE b
               IN IF has_ended_blocksize(x, c) \/ (~improved /\ ~first_time)
                  THEN [x EXCEPT !.aux_index = 0,
                          !.state = IF /\ x.config.comp_mode = BTUNE_COMP_HSP
                                       /\ ~BTUNE_DISABLE_MEMCPY
                                    THEN MEMCPY ELSE WAITING]
                  ELSE x
          [] b.state = MEMCPY -> [b EXCEPT !.aux_index = 0, !.state = WAITING]
          [] OTHER -> b

\* update_aux(ctx, improved): the switch, and process_waiting_state when the
\* readapt has ended.
update_aux(b, c, improved) ==
  LET b1 == update_aux_switch(b, c, improved)
  IN IF b1.state = WAITING THEN process_waiting_state(b1) ELSE b1

\* Mutant: without the test of a chunk of special values.
trial_improved_without_special_test(b, c, ctime, cbytes, dtime) ==
  LET score == score_function(b, ctime, cbytes, dtime)
      cratio == <<c.sourcesize, cbytes>>
      cratio_coef == <<cratio[1] * b.best.cratio[2], cratio[2] * b.best.cratio[1]>>
      score_coef == <<b.best.score, score>>
  IN IF b.state = THREADS
     THEN IF b.threads_for_comp THEN ctime < b.best.ctime
          ELSE dtime < b.best.dtime
     ELSE has_improved(b, score_coef, cratio_coef)

\* Mutant: the special-values test without the typesize.
trial_improved_overhead_only(b, c, ctime, cbytes, dtime) ==
  IF cbytes <= BLOSC2_MAX_OVERHEAD THEN FALSE
  ELSE trial_improved_without_special_test(b, c, ctime, cbytes, dtime)

\* The improvement decision of btune_update for the trial just measured.
\* The mean of the single sample kept in current_scores is the sample.
trial_improved(b, c, ctime, cbytes, dtime) ==
  LET score == score_function(b, ctime, cbytes, dtime)
      cratio == <<c.sourcesize, cbytes>>
      cratio_coef == <<cratio[1] * b.best.cratio[2], cratio[2] * b.best.cratio[1]>>
      score_coef == <<b.best.score, score>>
      improved == IF b.state = THREADS
                  THEN IF b.threads_for_comp THEN ctime < b.best.ctime
                       ELSE dtime < b.best.dtime
                  ELSE has_improved(b, score_coef, cratio_coef)
  IN IF cbytes <= BLOSC2_MAX_OVERHEAD + c.typesize THEN FALSE ELSE improved

\* Mutant: best takes every trial ("if (improved || cparams_equals(...))" with
\* the test dropped).
process_trial_replacing_best(b, c, ctime, cbytes) ==
  LET dtime == 0
      cparams == [b.aux_cparams EXCEPT
                    !.score = score_function(b, ctime, cbytes, dtime),
                    !.cratio = <<c.sourcesize, cbytes>>,
                    !.ctime = ctime,
                    !.dtime = dtime]
      improved == trial_improved(b, c, ctime, cbytes, dtime)
      b1 == [b EXCEPT !.aux_cparams = cparams, !.best = cparams]
  IN update_aux(b1, c, improved)

\* btune_update past its STOP test: the metrics go into aux_cparams, best is
\* replaced on improvement and the state advances.
process_trial(b, c, ctime, cbytes) ==
  LET dtime == 0
      cparams == [b.aux_cparams EXCEPT
                    !.score = score_function(b, ctime, cbytes, dtime),
                    !.cratio = <<c.sourcesize, cbytes>>,
                    !.ctime = ctime,
                    !.dtime = dtime]
      improved == trial_improved(b, c, ctime, cbytes, dtime)
      b1 == [b EXCEPT !.aux_cparams = cparams,
                      !.best = IF improved THEN cparams ELSE @]
  IN update_aux(b1, c, improved)

\* process_trial up to the call of process_waiting_state.
process_trial_switch(b, c, ctime, cbytes) ==
  LET dtime == 0
      cparams == [b.aux_cparams EXCEPT
                    !.score = score_function(b, ctime, cbytes, dtime),
                    !.cratio = <<c.sourcesize, cbytes>>,
                    !.ctime = ctime,
                    !.dtime = dtime]
      improved == trial_improved(b, c, ctime, cbytes, dtime)
      b1 == [b EXCEPT !.aux_cparams = cparams,
                      !.best = IF improved THEN cparams ELSE @]
  IN update_aux_switch(b1, c, improved)

\* Mutant: the log line is printed whether the tuner is repeating or not.
btune_update_log_while_repeating(b) ==
  IF b.state = STOP THEN 0 ELSE 1

\* The lines that btune_update prints on standard output when BTUNE_LOG is
\* set: the line of the trial, unless the tuner is repeating.
btune_update_log(b) ==
  IF b.state = STOP THEN 0
  ELSE IF ~b.is_repeating THEN 1 ELSE 0

\* Mutant: btune_update without "if (state == STOP) return".
btune_update_no_stop_test(b, c, ctime, cbytes) ==
  process_trial(b, c, ctime, cbytes)

\* btune_update(context, ctime), with cbytes = context->destsize.
btune_update(b, c, ctime, cbytes) ==
  IF b.state = STOP THEN b
  ELSE process_trial(b, c, ctime, cbytes)

---------------------------------------------------------------------------
(* The host and the actions.                                               *)

\* A host compression context as blosc2 creates it from the host's cparams.
HostCctx(compcode, clevel, filter, splitmode, typesize, nthreads) ==
  [ compcode |-> compcode,
    clevel |-> clevel,
    filter |-> filter,            \* filters[BLOSC2_MAX_FILTERS - 1]
    filter_prev |-> 0,            \* filters[BLOSC2_MAX_FILTERS - 2]
    filter_meta |-> 0,            \* filters_meta[BLOSC2_MAX_FILTERS - 1]
    splitmode |-> splitmode,
    blocksize |-> HostBlocksize,
    typesize |-> typesize,
    schunk_typesize |-> typesize, \* schunk->typesize
    nthreads |-> nthreads,
    new_nthreads |-> nthreads,
    sourcesize |-> SourceSize ]

HostDctx(nthreads) ==
  [ present |-> TRUE, nthreads |-> nthreads, new_nthreads |-> nthreads ]

\* What one btune_update adds to the history: the readapt it ended and the
\* readapt it started.
UpdateEvents(b, n) ==
  LET ended_hard == n.nhards > b.nhards
      ended_soft == n.nsofts > b.nsofts
      started_hard == n.state = CODEC_FILTER /\ b.state # CODEC_FILTER
      started_soft == /\ n.state = CLEVEL /\ n.readapt_from = SOFT
                      /\ (ended_hard \/ ended_soft \/ b.state = WAITING)
  IN (IF ended_hard THEN <<"HARD_END">> ELSE <<>>)
     \o (IF ended_soft THEN <<"SOFT_END">> ELSE <<>>)
     \o (IF started_hard THEN <<"HARD">> ELSE <<>>)
     \o (IF started_soft THEN <<"SOFT">> ELSE <<>>)

InitEvents(b) ==
  IF b.state = CODEC_FILTER THEN <<"HARD">>
  ELSE IF b.state = CLEVEL THEN <<"SOFT">> ELSE <<>>

InitWith(config, c, d, inference) ==
  /\ btune = btune_init(config, c, d)
  /\ cctx = c
  /\ dctx = d
  /\ host = [ pc |-> "next_cparams", nchunks |-> 0, inference |-> inference,
              config |-> config, cparams |-> c, log |-> 0 ]
  /\ hist = InitEvents(btune_init(config, c, d))

Behaviours ==
  [ nwaits_before_readapt : 0..MaxWaits,
    nsofts_before_hard : 0..MaxSofts,
    nhards_before_stop : 0..MaxHards,
    repeat_mode : {BTUNE_STOP, BTUNE_REPEAT_SOFT, BTUNE_REPEAT_ALL} ]

Config(perf_mode, comp_mode, behaviour, cparams_hint) ==
  [ bandwidth |-> Bandwidth,
    perf_mode |-> perf_mode,
    comp_mode |-> comp_mode,
    behaviour |-> behaviour,
    cparams_hint |-> cparams_hint ]

\* The host keeps appending chunks while the counters are within the caps.
WithinCaps ==
  /\ btune.nhards <= CapHards
  /\ btune.nsofts <= CapSofts
  /\ btune.nwaitings <= CapWaitings

\* The host calls btune_next_cparams before compressing a chunk.
NextCparams ==
  /\ host.pc = "next_cparams"
  /\ WithinCaps
  /\ LET r == btune_next_cparams(btune, cctx, dctx, host)
     IN /\ btune' = r.b
        /\ cctx' = r.c
        /\ dctx' = r.d
  /\ host' = [host EXCEPT !.pc = "update"]
  /\ hist' = IF btune.state = WAITING THEN Append(hist, "WAIT") ELSE hist

\* The inputs of btune_next_blocksize: the type sizes, the blocksizes that
\* the context holds before the call (0 is the automatic one) and the
\* source sizes.
TypeSizes == {1, 4, 8, 64}
UserBlocksizes == {0, 16, 48, 8192, 100000}
SourceSizes == {3, 1024, 40000, 1000000}

\* A host that calls btune_next_blocksize on a context of its own: every
\* clevel 0 .. 9, BLOSCLZ or ZSTD, and the sizes above.
InitBlocksize ==
  \E compcode \in {BLOSC_BLOSCLZ, BLOSC_ZSTD}, clevel \in 0..MAX_CLEVEL,
     typesize \in TypeSizes, blocksize \in UserBlocksizes,
     sourcesize \in SourceSizes :
    LET c == [HostCctx(compcode, clevel, BLOSC_SHUFFLE,
                       BLOSC_FORWARD_COMPAT_SPLIT, typesize, 1)
                EXCEPT !.blocksize = blocksize, !.sourcesize = sourcesize]
    IN /\ btune = calloc_btune
       /\ cctx = c
       /\ dctx = NoDctx
       /\ hist = << >>
       /\ host = [ pc |-> "next_blocksize", nchunks |-> 0, inference |-> -1,
                   config |-> BTUNE_CONFIG_DEFAULTS, cparams |-> c, log |-> 0 ]

\* blosc2 sets the blocksize of the context through the tuner.
NextBlocksize ==
  /\ host.pc = "next_blocksize"
  /\ cctx' = btune_next_blocksize(cctx)
  /\ host' = [host EXCEPT !.pc = "compress"]
  /\ UNCHANGED <<btune, dctx, hist>>

SpecBlocksize == InitBlocksize /\ [][NextBlocksize]_vars

---------------------------------------------------------------------------
(* The entropy prober (blosc2_entropy_prober.c).  A block is a sequence of *)
(* bytes; ip, anchor and ref are offsets from ibase, so that the byte at   *)
(* offset p is input[p + 1].                                               *)

MAX_COPY == 32
MAX_DISTANCE == 8191
MAX_FARDISTANCE == 65535 + MAX_DISTANCE - 1
HASH_LOG2 == 12
MaxLen == 40         \* the blocks given to the prober have 1 .. MaxLen bytes

\* BLOSCLZ_READU32(p): the four bytes at p, the least significant first.
BLOSCLZ_READU32(input, p) ==
  <<input[p + 1], input[p + 2], input[p + 3], input[p + 4]>>

\* HASH_FUNCTION: (seq * 2654435761U) >> (32 - HASH_LOG2) in 32 bits.  The
\* product is kept in two halves of 16 bits, 2654435761 = 40503 * 2^16 + 31153.
HASH_FUNCTION(seq) ==
  LET kh == 40503
      kl == 31153
      lo == ((seq[1] * kl) % 65536) + (((seq[2] * kl) % 256) * 256)
      hi == ((seq[1] * kl) \div 65536) + ((seq[1] * kh) % 65536)
            + (((seq[2] * kl) \div 256) % 65536) + (((seq[2] * kh) % 256) * 256)
            + ((seq[3] * kl) % 65536)
            + (((seq[4] * kl) % 256) * 256)
      high16 == (hi + (lo \div 65536)) % 65536
  IN high16 \div (2 ^ (16 - HASH_LOG2))

\* htab[hval] of a table that memset has filled with zeros.
htab_at(htab, hval) == IF hval \in DOMAIN htab THEN htab[hval] ELSE 0

\* get_run: ip advances while the bytes at ref equal ip[-1], up to ip_bound.
RECURSIVE run_from(_, _, _, _, _)
run_from(input, x, ip, ip_bound, ref) ==
  IF ip < ip_bound /\ input[ref + 1] = x
  THEN run_from(input, x, ip + 1, ip_bound, ref + 1)
  ELSE ip

get_run(input, ip, ip_bound, ref) ==
  run_from(input, input[ip], ip, ip_bound, ref)

\* get_match: ip advances while the bytes at ref and at ip are equal, up to
\* ip_bound; "*ref++ == *ip++" steps over the byte that differs.
RECURSIVE get_match(_, _, _, _)
get_match(input, ip, ip_bound, ref) ==
  IF ip < ip_bound
  THEN IF input[ref + 1] = input[ip + 1]
       THEN get_match(input, ip + 1, ip_bound, ref + 1)
       ELSE ip + 1
  ELSE ip

get_run_or_match(input, ip, ip_bound, ref, run) ==
  IF run THEN get_run(input, ip, ip_bound, ref)
  ELSE get_match(input, ip, ip_bound, ref)

\* LITERAL2(ip, anchor, copy)
LITERAL2(s, anchor, htab) ==
  [ ip |-> anchor + 1,
    oc |-> IF s.copy + 1 = MAX_COPY THEN s.oc + 2 ELSE s.oc + 1,
    copy |-> IF s.copy + 1 = MAX_COPY THEN 0 ELSE s.copy + 1,
    htab |-> htab ]

\* The main loop of get_cratio from the state s = [ip, oc, copy, htab].
RECURSIVE main_loop(_, _, _, _, _, _)
main_loop(input, s, ip_bound, ip_limit, minlen, ipshift) ==
  IF s.ip < ip_limit
  THEN LET anchor == s.ip
           seq == BLOSCLZ_READU32(input, s.ip)
           hval == HASH_FUNCTION(seq)
           ref == htab_at(s.htab, hval)
           distance == anchor - ref
           htab1 == (hval :> anchor) @@ s.htab
           literal == LITERAL2(s, anchor, htab1)
       IN IF distance = 0 \/ distance >= MAX_FARDISTANCE
          THEN main_loop(input, literal, ip_bound, ip_limit, minlen, ipshift)
          ELSE IF BLOSCLZ_READU32(input, ref) # seq
          THEN main_loop(input, literal, ip_bound, ip_limit, minlen, ipshift)
          ELSE LET biased == distance - 1
                   ip1 == get_run_or_match(input, anchor + 4, ip_bound, ref + 4,
                                           biased = 0) - ipshift
                   len == ip1 - anchor
               IN IF len < minlen
                  THEN main_loop(input, literal, ip_bound, ip_limit, minlen, ipshift)
                  ELSE LET oc1 == IF s.copy = 0 THEN s.oc - 1 ELSE s.oc
                           oc2 == oc1 + (IF len >= 7 THEN ((len - 7) \div 255) + 1 ELSE 0)
                                      + (IF biased < MAX_DISTANCE THEN 2 ELSE 4)
                           hval2 == HASH_FUNCTION(BLOSCLZ_READU32(input, ip1))
                       IN main_loop(input,
                                    [ ip |-> ip1 + 2, oc |-> oc2 + 1, copy |-> 0,
                                      htab |-> (hval2 :> ip1) @@ htab1 ],
                                    ip_bound, ip_limit, minlen, ipshift)
  ELSE s

\* get_cratio(ibase, maxlen, minlen, ipshift): the pair <<ic, oc>> whose
\* quotient ic / oc the function returns.
get_cratio(input, maxlen, minlen, ipshift) ==
  LET hashlen == 2 ^ HASH_LOG2
      limit == IF maxlen > hashlen THEN hashlen ELSE maxlen
      s == main_loop(input, [ ip |-> 0, oc |-> 5, copy |-> 4, htab |-> << >> ],
                     limit - 1, limit - 12, minlen, ipshift)
  IN <<s.ip, s.oc>>

\* The values that (int)((float)input_len / cratio) can take: the quotient
\* truncated, or, when cratio is 0.0 and the quotient infinite, whatever
\* the conversion of an infinite float gives (the least int, or the
\* greatest).
encoder_cbytes(input_len, cratio) ==
  IF cratio[1] = 0 THEN {-2147483647 - 1, 2147483647}
  ELSE {(input_len * cratio[2]) \div cratio[1]}

\* The blocks given to the prober: n bytes of period 1 (zeros), 2 .. 5 or
\* 256 (a counter, where no four bytes repeat), or a counter of n \div 2
\* bytes written twice.
Periodic(period, n) == [i \in 1..n |-> i % period]

Twice(n) == [i \in 1..n |-> IF i <= n \div 2 THEN i ELSE i - (n \div 2)]

Blocks(n) == {Periodic(period, n) : period \in {1, 2, 3, 4, 5, 256}} \cup {Twice(n)}

InitProber ==
  \E n \in 1..MaxLen :
    \E input \in Blocks(n) :
      /\ btune = calloc_btune
      /\ cctx = HostCctx(BLOSC_BLOSCLZ, 5, BLOSC_SHUFFLE,
                         BLOSC_FORWARD_COMPAT_SPLIT, 1, 1)
      /\ dctx = NoDctx
      /\ hist = << >>
      /\ host = [ pc |-> "encoder", input |-> input, cratio |-> <<0, 1>>,
                  cbytes |-> 0 ]

\* encoder(input, input_len, ...): the estimate of the compressed size.
encoder ==
  /\ host.pc = "encoder"
  /\ LET input_len == Len(host.input)
         cratio == get_cratio(host.input, input_len, 3, 3)
     IN \E cbytes \in encoder_cbytes(input_len, cratio) :
          host' = [host EXCEPT !.pc = "encoded", !.cratio = cratio,
                      !.cbytes = IF cbytes > input_len THEN input_len ELSE cbytes]
  /\ UNCHANGED <<btune, cctx, dctx, hist>>

SpecProber == InitProber /\ [][encoder]_vars

\* The host runs with BTUNE_LOG set; host.log is the number of lines that
\* the last btune_update call has printed.
\* The host has compressed the chunk in ctime ticks into cbytes bytes, calls
\* btune_update and appends the chunk (nchunks is counted up to 1: the code
\* only tests nchunks == 0).
Update ==
  /\ host.pc = "update"
  /\ \E ctime \in CTimeSet, cbytes \in CBytesSet :
       /\ btune' = btune_update(btune, cctx, ctime, cbytes)
       /\ hist' = hist \o UpdateEvents(btune, btune_update(btune, cctx, ctime, cbytes))
  /\ host' = [host EXCEPT !.pc = "next_cparams", !.nchunks = 1,
                          !.log = btune_update_log(btune)]
  /\ UNCHANGED <<cctx, dctx>>

Next == NextCparams \/ Update

\* Every behaviour configuration, with and without hint, in comp_mode HSP and
\* perf_mode COMP; the host's context is BLOSC2_CPARAMS_DEFAULTS with 4-byte
\* items, with or without a decompression context, and the predictor answers
\* category 6 (LZ4 + SHUFFLE) on chunk 0.
Init ==
  \E bh \in Behaviours, hint \in BOOLEAN, d \in {NoDctx, HostDctx(2)} :
    InitWith(Config(BTUNE_PERF_COMP, BTUNE_COMP_HSP, bh, hint),
             HostCctx(BLOSC_BLOSCLZ, 5, BLOSC_SHUFFLE, BLOSC_FORWARD_COMPAT_SPLIT, 4, 1),
             d, 6)

Spec == Init /\ [][Next]_vars

\* BTUNE_CONFIG_DEFAULTS (comp_mode and perf_mode BALANCED), the host's
\* context being BLOSC2_CPARAMS_DEFAULTS with 4-byte items and 1 or 2
\* threads, with or without a decompression context; the predictor is
\* unavailable or answers category 6 (LZ4 + SHUFFLE).
InitDefaults ==
  \E nthreads \in {1, 2}, d \in {NoDctx, HostDctx(1)}, inference \in {-1, 6} :
    InitWith(BTUNE_CONFIG_DEFAULTS,
             HostCctx(BLOSC_BLOSCLZ, 5, BLOSC_SHUFFLE, BLOSC_FORWARD_COMPAT_SPLIT,
                      4, nthreads),
             d, inference)

SpecDefaults == InitDefaults /\ [][Next]_vars

CompModes == {BTUNE_COMP_HSP, BTUNE_COMP_BALANCED, BTUNE_COMP_HCR}

\* The behaviours of the tuners of SpecHint: repeat mode STOP, at most one
\* wait and one soft, at most one hard.
HintBehaviours ==
  {bh \in Behaviours : /\ bh.repeat_mode = BTUNE_STOP
                       /\ bh.nwaits_before_readapt <= 1
                       /\ bh.nsofts_before_hard <= 1
                       /\ bh.nhards_before_stop <= 1}

\* Tuners with cparams_hint: every comp_mode, the host's context having
\* BLOSCLZ or ZSTD with every clevel 0 .. 9; and the tuners without the
\* hint, of one hard and one soft, on the host's default context.  No
\* predictor.
InitHint ==
  \E comp_mode \in CompModes, bh \in HintBehaviours :
    \/ \E compcode \in {BLOSC_BLOSCLZ, BLOSC_ZSTD}, clevel \in 0..MAX_CLEVEL :
         InitWith(Config(BTUNE_PERF_COMP, comp_mode, bh, TRUE),
                  HostCctx(compcode, clevel, BLOSC_SHUFFLE,
                           BLOSC_FORWARD_COMPAT_SPLIT, 4, 1),
                  NoDctx, -1)
    \/ /\ bh.nhards_before_stop = 1
       /\ bh.nsofts_before_hard = 1
       /\ InitWith(Config(BTUNE_PERF_COMP, comp_mode, bh, FALSE),
                   HostCctx(BLOSC_BLOSCLZ, 5, BLOSC_SHUFFLE,
                            BLOSC_FORWARD_COMPAT_SPLIT, 4, 1),
                   NoDctx, -1)

SpecHint == InitHint /\ [][Next]_vars

\* The behaviours of the tuners of SpecModes: repeat mode STOP, at most one
\* wait, one soft and one hard.
ModeBehaviours ==
  {bh \in Behaviours : /\ bh.repeat_mode = BTUNE_STOP
                       /\ bh.nwaits_before_readapt <= 1
                       /\ bh.nsofts_before_hard <= 1
                       /\ bh.nhards_before_stop <= 1}

PerfModes == {BTUNE_PERF_COMP, BTUNE_PERF_DECOMP, BTUNE_PERF_BALANCED}

\* Tuners without hint in every comp_mode and perf_mode, on the host's
\* default context without a decompression context; the predictor fails
\* (-1, no model) or answers category 9 (ZSTD + SHUFFLE) on chunk 0.
InitModes ==
  \E comp_mode \in CompModes, perf_mode \in PerfModes,
     bh \in ModeBehaviours, inference \in {-1, 9} :
    InitWith(Config(perf_mode, comp_mode, bh, FALSE),
             HostCctx(BLOSC_BLOSCLZ, 5, BLOSC_SHUFFLE,
                      BLOSC_FORWARD_COMPAT_SPLIT, 4, 1),
             NoDctx, inference)

SpecModes == InitModes /\ [][Next]_vars

\* An enum value outside the enumerators of its type
UnknownEnum == "UNKNOWN"

\* Tuners whose configuration has one unknown enum value: the perf_mode, the
\* comp_mode or the repeat_mode.  No predictor.
InitUnknown ==
  \E bh \in ModeBehaviours :
    \/ \E comp_mode \in CompModes :
         InitWith(Config(UnknownEnum, comp_mode, bh, FALSE),
                  HostCctx(BLOSC_BLOSCLZ, 5, BLOSC_SHUFFLE,
                           BLOSC_FORWARD_COMPAT_SPLIT, 4, 1),
                  NoDctx, -1)
    \/ \E perf_mode \in PerfModes :
         InitWith(Config(perf_mode, UnknownEnum, bh, FALSE),
                  HostCctx(BLOSC_BLOSCLZ, 5, BLOSC_SHUFFLE,
                           BLOSC_FORWARD_COMPAT_SPLIT, 4, 1),
                  NoDctx, -1)
    \/ \E hint \in BOOLEAN :
         InitWith(Config(BTUNE_PERF_BALANCED, BTUNE_COMP_BALANCED,
                         [bh EXCEPT !.repeat_mode = UnknownEnum], hint),
                  HostCctx(BLOSC_BLOSCLZ, 5, BLOSC_SHUFFLE,
                           BLOSC_FORWARD_COMPAT_SPLIT, 4, 1),
                  NoDctx, -1)

\* "assert(score > 0)" of btune_update in a build with assertions: the
\* process aborts.  (A build with NDEBUG goes on, as Update does.)
AssertScoreFails ==
  /\ host.pc = "update"
  /\ btune.state # STOP
  /\ \E ctime \in CTimeSet, cbytes \in CBytesSet :
       score_function(btune, ctime, cbytes, 0) <= 0
  /\ host' = [host EXCEPT !.pc = "aborted"]
  /\ UNCHANGED <<btune, cctx, dctx, hist>>

NextUnknown == NextCparams \/ Update \/ AssertScoreFails

SpecUnknown == InitUnknown /\ [][NextUnknown]_vars

\* Tuners of four threads: perf_mode and comp_mode BALANCED, no hint,
\* the host's default context with nthreads = 4, without a decompression
\* context or with one of 4 threads; at most one wait and one soft, up to
\* MaxHards hards, every repeat mode.  No predictor.
InitThreads ==
  \E d \in {NoDctx, HostDctx(4)} :
    \E bh \in {x \in Behaviours : /\ x.nwaits_before_readapt <= 1
                                  /\ x.nsofts_before_hard <= 1} :
      InitWith(Config(BTUNE_PERF_BALANCED, BTUNE_COMP_BALANCED, bh, FALSE),
               HostCctx(BLOSC_BLOSCLZ, 5, BLOSC_SHUFFLE,
                        BLOSC_FORWARD_COMPAT_SPLIT, 4, 4),
               d, -1)

SpecThreads == InitThreads /\ [][Next]_vars

\* The sizes of a host whose chunks compress a little better each time:
\* MaxChain + 1 sizes, none of them a special value.
MaxChain == 12
ShrinkingCBytes == 100 .. (100 + MaxChain)

\* btune_update for that host.
UpdateShrinking ==
  /\ host.pc = "update"
  /\ \E ctime \in CTimeSet, cbytes \in ShrinkingCBytes :
       /\ btune' = btune_update(btune, cctx, ctime, cbytes)
       /\ hist' = hist \o UpdateEvents(btune, btune_update(btune, cctx, ctime, cbytes))
  /\ host' = [host EXCEPT !.pc = "next_cparams", !.nchunks = 1,
                          !.log = btune_update_log(btune)]
  /\ UNCHANGED <<cctx, dctx>>

NextClevel == NextCparams \/ UpdateShrinking

\* Tuners with cparams_hint that start in CLEVEL: every comp_mode, the
\* host's context having BLOSCLZ or ZSTD with a low, a middle or the highest
\* clevel, one soft readapt and no hard or one (step_size 2 or 1).  No
\* predictor.
InitClevel ==
  \E comp_mode \in CompModes, compcode \in {BLOSC_BLOSCLZ, BLOSC_ZSTD},
     clevel \in {1, 5, MAX_CLEVEL}, nhards \in {0, 1} :
    InitWith(Config(BTUNE_PERF_COMP, comp_mode,
                    [ nwaits_before_readapt |-> 0, nsofts_before_hard |-> 1,
                      nhards_before_stop |-> nhards, repeat_mode |-> BTUNE_STOP ],
                    TRUE),
             HostCctx(compcode, clevel, BLOSC_SHUFFLE,
                      BLOSC_FORWARD_COMPAT_SPLIT, 4, 1),
             NoDctx, -1)

SpecClevel == InitClevel /\ [][NextClevel]_vars

\* The largest uint32_t.  A uint32_t field is kept as the 32-bit integer of
\* the same bits, so that 2^32 - 1 is -1 and "++" is "+ 1" with the wrap of
\* the machine: UINT32_MAX + 1 = 0.
UINT32_MAX == -1

\* btune_update would evaluate a '%' by zero for this chunk.
DividesByZero(b, c, ctime, cbytes) ==
  /\ b.state # STOP
  /\ process_trial_switch(b, c, ctime, cbytes).state = WAITING
  /\ modulo_by_zero(process_trial_switch(b, c, ctime, cbytes))

\* btune_update when every '%' it evaluates has a non-zero divisor.
UpdateDefined ==
  /\ host.pc = "update"
  /\ \E ctime \in CTimeSet, cbytes \in CBytesSet :
       /\ ~DividesByZero(btune, cctx, ctime, cbytes)
       /\ btune' = btune_update(btune, cctx, ctime, cbytes)
       /\ hist' = hist \o UpdateEvents(btune, btune_update(btune, cctx, ctime, cbytes))
  /\ host' = [host EXCEPT !.pc = "next_cparams", !.nchunks = 1,
                          !.log = btune_update_log(btune)]
  /\ UNCHANGED <<cctx, dctx>>

\* btune_update reaches a '%' by zero in process_waiting_state: undefined
\* behaviour, whose outcomes are Trap and Remainder.
ModuloByZero ==
  /\ host.pc = "update"
  /\ \E ctime \in CTimeSet, cbytes \in CBytesSet :
       /\ DividesByZero(btune, cctx, ctime, cbytes)
       /\ btune' = process_trial_switch(btune, cctx, ctime, cbytes)
  /\ host' = [host EXCEPT !.pc = "modulo_by_zero", !.nchunks = 1,
                          !.log = btune_update_log(btune)]
  /\ UNCHANGED <<cctx, dctx, hist>>

\* The division traps (SIGFPE on x86): the process ends.
Trap ==
  /\ host.pc = "modulo_by_zero"
  /\ host' = [host EXCEPT !.pc = "aborted"]
  /\ UNCHANGED <<btune, cctx, dctx, hist>>

\* The division yields some remainder (no trap on ARM), zero or not, and
\* case HARD goes on with it.
Remainder ==
  /\ host.pc = "modulo_by_zero"
  /\ btune.readapt_from = HARD
  /\ \E zero \in BOOLEAN :
       LET h == [btune EXCEPT !.nhards = @ + 1]
           n == force_soft_step_size(hard_ended(h, zero))
       IN /\ btune' = n
          /\ hist' = hist \o UpdateEvents(btune, n)
  /\ host' = [host EXCEPT !.pc = "next_cparams"]
  /\ UNCHANGED <<cctx, dctx>>

NextWrap == NextCparams \/ UpdateDefined \/ ModuloByZero \/ Trap \/ Remainder

\* Configurations with 0 or 1 in each count of the behaviour and, without
\* hint, also UINT32_MAX hard readapts; every repeat mode; no predictor.
InitWrap ==
  \E hint \in BOOLEAN, nwaits \in {0, 1}, nsofts \in {0, 1},
     nhards \in {0, 1, UINT32_MAX},
     repeat_mode \in {BTUNE_STOP, BTUNE_REPEAT_SOFT, BTUNE_REPEAT_ALL} :
    /\ hint => nhards # UINT32_MAX
    /\ InitWith(Config(BTUNE_PERF_COMP, BTUNE_COMP_HSP,
                       [ nwaits_before_readapt |-> nwaits,
                         nsofts_before_hard |-> nsofts,
                         nhards_before_stop |-> nhards,
                         repeat_mode |-> repeat_mode ],
                       hint),
                HostCctx(BLOSC_LZ4, 5, BLOSC_SHUFFLE,
                         BLOSC_FORWARD_COMPAT_SPLIT, 4, 1),
                NoDctx, -1)

SpecWrap == InitWrap /\ [][NextWrap]_vars

\* A host about to call btune_init with a NULL configuration: the tuner is
\* not allocated yet.
InitNull ==
  \E nthreads \in {1, 2}, d \in {NoDctx, HostDctx(1)}, inference \in {-1, 6} :
    /\ btune = calloc_btune
    /\ cctx = HostCctx(BLOSC_BLOSCLZ, 5, BLOSC_SHUFFLE,
                       BLOSC_FORWARD_COMPAT_SPLIT, 4, nthreads)
    /\ dctx = d
    /\ host = [ pc |-> "init", nchunks |-> 0, inference |-> inference,
                config |-> NULL, cparams |-> cctx, log |-> 0 ]
    /\ hist = <<>>

\* btune_init(NULL, cctx, dctx): BTUNE_CONFIG_DEFAULTS is copied, and then
\* "config->cparams_hint" reads through the NULL pointer.  Undefined
\* behaviour: the read traps (SIGSEGV) ...
NullTrap ==
  /\ host.pc = "init"
  /\ host' = [host EXCEPT !.pc = "aborted"]
  /\ UNCHANGED <<btune, cctx, dctx, hist>>

\* ... or it yields some value, and btune_init goes on with it.
NullRead ==
  /\ host.pc = "init"
  /\ \E cparams_hint \in BOOLEAN :
       LET b == btune_init_body(BTUNE_CONFIG_DEFAULTS, cparams_hint, cctx, dctx)
       IN /\ btune' = b
          /\ hist' = InitEvents(b)
  /\ host' = [host EXCEPT !.pc = "next_cparams"]
  /\ UNCHANGED <<cctx, dctx>>

NextNull == NullTrap \/ NullRead \/ NextCparams \/ Update

SpecNull == InitNull /\ [][NextNull]_vars

\* The compression times of a host whose chunks take a short or a long time.
CTimes == {16, 256}

\* btune_update for that host.
UpdateTimed ==
  /\ host.pc = "update"
  /\ \E ctime \in CTimes, cbytes \in CBytesSet :
       /\ btune' = btune_update(btune, cctx, ctime, cbytes)
       /\ hist' = hist \o UpdateEvents(btune, btune_update(btune, cctx, ctime, cbytes))
  /\ host' = [host EXCEPT !.pc = "next_cparams", !.nchunks = 1,
                          !.log = btune_update_log(btune)]
  /\ UNCHANGED <<cctx, dctx>>

NextTimed == NextCparams \/ UpdateTimed

\* Tuners with perf_mode DECOMP: every comp_mode, with and without hint,
\* 0 or 1 in each count of the behaviour, repeat mode STOP; no predictor.
InitTimed ==
  \E comp_mode \in CompModes, hint \in BOOLEAN,
     nwaits \in {0, 1}, nsofts \in {0, 1}, nhards \in {0, 1},
     repeat_mode \in {BTUNE_STOP} :
    InitWith(Config(BTUNE_PERF_DECOMP, comp_mode,
                    [ nwaits_before_readapt |-> nwaits,
                      nsofts_before_hard |-> nsofts,
                      nhards_before_stop |-> nhards,
                      repeat_mode |-> repeat_mode ],
                    hint),
             HostCctx(BLOSC_LZ4, 5, BLOSC_SHUFFLE,
                      BLOSC_FORWARD_COMPAT_SPLIT, 4, 1),
             NoDctx, -1)

SpecTimed == InitTimed /\ [][NextTimed]_vars

\* Tuners with perf_mode COMP: every comp_mode, with and without hint, no
\* waits, 0 or 1 soft and hard readapts, repeat mode STOP; no predictor.
InitPerf ==
  \E comp_mode \in CompModes, hint \in BOOLEAN,
     nsofts \in {0, 1}, nhards \in {0, 1} :
    InitWith(Config(BTUNE_PERF_COMP, comp_mode,
                    [ nwaits_before_readapt |-> 0,
                      nsofts_before_hard |-> nsofts,
                      nhards_before_stop |-> nhards,
                      repeat_mode |-> BTUNE_STOP ],
                    hint),
             HostCctx(BLOSC_LZ4, 5, BLOSC_SHUFFLE,
                      BLOSC_FORWARD_COMPAT_SPLIT, 4, 1),
             NoDctx, -1)

SpecPerf == InitPerf /\ [][NextTimed]_vars

\* The sizes of a chunk made of special values:
\* cbytes <= BLOSC2_MAX_OVERHEAD + typesize
DegenerateCBytes ==
  {cbytes \in CBytesSet : cbytes <= BLOSC2_MAX_OVERHEAD + cctx.typesize}

\* btune_update for a host whose chunks are all made of special values.
UpdateDegenerate ==
  /\ host.pc = "update"
  /\ \E ctime \in CTimeSet, cbytes \in DegenerateCBytes :
       /\ btune' = btune_update(btune, cctx, ctime, cbytes)
       /\ hist' = hist \o UpdateEvents(btune, btune_update(btune, cctx, ctime, cbytes))
  /\ host' = [host EXCEPT !.pc = "next_cparams", !.nchunks = 1,
                          !.log = btune_update_log(btune)]
  /\ UNCHANGED <<cctx, dctx>>

NextDegenerate == NextCparams \/ UpdateDegenerate

\* The default configuration on a host that keeps appending chunks of special
\* values: the loop of main() does not stop while there are chunks.
SpecDegenerate ==
  InitDefaults /\ [][NextDegenerate]_vars /\ WF_vars(NextDegenerate)

---------------------------------------------------------------------------
(* The claims.                                                             *)

\* The configuration as the host gave it (btune_init works on a copy).
Behaviour == host.config.behaviour
Hint == host.config.cparams_hint

\* The compression parameters of a cparams_btune or of a host context
Params(x) == <<x.compcode, x.filter, x.splitmode, x.clevel>>

\* C1: STOP is absorbing.  From a state in STOP, a call of btune_next_cparams
\* writes nothing into the host contexts and a call of btune_update leaves
\* state, best, nhards, nsofts, nwaitings and is_repeating as they are; the
\* state stays STOP.
C1_StopAbsorbing ==
  [][btune.state = STOP =>
       /\ cctx' = cctx
       /\ dctx' = dctx
       /\ btune'.state = STOP
       /\ btune'.best = btune.best
       /\ btune'.nhards = btune.nhards
       /\ btune'.nsofts = btune.nsofts
       /\ btune'.nwaitings = btune.nwaitings
       /\ btune'.is_repeating = btune.is_repeating]_vars

\* C1 witness: the tuner stopped after a readapt whose last trial was
\* rejected, and the host has since called btune_next_cparams (the update of
\* that chunk is pending): the context still holds the rejected trial.
C1_Witness ==
  /\ btune.state = STOP
  /\ btune.nhards > 0
  /\ host.pc = "update"
  /\ Params(cctx) # Params(btune.best)

IsPrefix(s, t) == Len(s) <= Len(t) /\ \A i \in 1..Len(s) : s[i] = t[i]

\* The history of the default schedule: a readapt starts ("HARD", "SOFT")
\* and ends ("HARD_END", "SOFT_END") before the next one starts.
DefaultSchedule ==
  <<"HARD", "HARD_END",
    "SOFT", "SOFT_END", "SOFT", "SOFT_END", "SOFT", "SOFT_END",
    "SOFT", "SOFT_END", "SOFT", "SOFT_END",
    "HARD", "HARD_END">>

\* C2: with BTUNE_CONFIG_DEFAULTS, whatever the trials' outcomes, the
\* readapts are one hard, five softs, one hard, and then STOP: the history is
\* always a prefix of that schedule, the tuner is in STOP exactly when the
\* schedule is complete, and then nhards = 2 and nsofts = 5.
C2_DefaultSchedule ==
  /\ IsPrefix(hist, DefaultSchedule)
  /\ btune.state = STOP <=> hist = DefaultSchedule
  /\ btune.state = STOP => btune.nhards = 2 /\ btune.nsofts = 5

\* C2 witness: the default schedule has run to STOP, with a trial that
\* improved on the way (best is no longer the initial LZ4 at clevel 9).
C2_Witness ==
  /\ btune.state = STOP
  /\ hist = DefaultSchedule
  /\ btune.best.clevel # 9

\* The hard readapts of the initial schedule: the configured ones and,
\* without a hint, the seed.
HardsDue == Behaviour.nhards_before_stop + (IF Hint THEN 0 ELSE 1)

StopNoSofts ==
  /\ Behaviour.repeat_mode = BTUNE_STOP
  /\ Behaviour.nsofts_before_hard = 0

\* C3: with repeat_mode STOP and no softs, for every nwaits_before_readapt,
\* with or without hint, the tuner is in STOP exactly when nhards_before_stop
\* hard readapts have completed, the seed of a tuner without hint not being
\* counted; and from then on no call changes the host contexts.
C3_StopAfterHards ==
  /\ [](StopNoSofts => (btune.state = STOP <=> btune.nhards = HardsDue))
  /\ [][StopNoSofts /\ btune.state = STOP => cctx' = cctx /\ dctx' = dctx]_vars

\* C3 witness: without hint, two configured hards, waits between them: the
\* tuner has stopped after three hards and has been called again since.
C3_Witness ==
  /\ StopNoSofts
  /\ ~Hint
  /\ Behaviour.nhards_before_stop = 2
  /\ Behaviour.nwaits_before_readapt > 0
  /\ btune.state = STOP
  /\ btune.nhards = 3
  /\ host.pc = "update"

RECURSIVE TrailingWaits(_)
\* The number of waiting chunks at the end of a history.
TrailingWaits(h) ==
  IF h = <<>> \/ h[Len(h)] # "WAIT" THEN 0
  ELSE 1 + TrailingWaits(SubSeq(h, 1, Len(h) - 1))

\* C4: in repeat mode STOP the tuner stops rather than remaining in WAITING
\* or readapting forever.  On finite runs: it never stays in WAITING for more
\* than nwaits_before_readapt chunks in a row, and it makes no more hard
\* readapts than the initial schedule has.
C4_StopModeReachesStop ==
  Behaviour.repeat_mode = BTUNE_STOP =>
    /\ TrailingWaits(hist) <= Behaviour.nwaits_before_readapt
    /\ btune.nhards <= HardsDue

\* C5: is_repeating is true exactly from the moment nhards reaches N + 1
\* without hint, and N with a hint and N >= 1, N being the configured
\* nhards_before_stop: the seed hard readapt is not counted.
C5_SeedNotCounted ==
  (~Hint \/ Behaviour.nhards_before_stop >= 1) =>
    (btune.is_repeating <=> btune.nhards >= HardsDue)

\* C5 witness: without hint and N = 1, the second hard readapt has ended and
\* the tuner is repeating.
C5_Witness ==
  /\ ~Hint
  /\ Behaviour.nhards_before_stop = 1
  /\ btune.nhards = 2
  /\ btune.is_repeating

IsReadaptStart(e) == e \in {"HARD", "SOFT"}

\* The readapts started so far, in order.
Readapts == SelectSeq(hist, IsReadaptStart)

RepeatAllScenario ==
  /\ Behaviour.repeat_mode = BTUNE_REPEAT_ALL
  /\ Behaviour.nhards_before_stop = 2
  /\ Behaviour.nsofts_before_hard = 1
  /\ Behaviour.nwaits_before_readapt = 0

\* C6: with REPEAT_ALL, 2 hards, 1 soft and no waits the tuner is never in
\* STOP (nor left in WAITING) and hard and soft readapts strictly alternate,
\* whatever the trials' outcomes; without hint the first one is a hard.
C6_RepeatAllAlternates ==
  RepeatAllScenario =>
    /\ btune.state \notin {STOP, WAITING}
    /\ \A i \in 1..(Len(Readapts) - 1) : Readapts[i] # Readapts[i + 1]
    /\ ~Hint => Readapts[1] = "HARD"

\* C6 witness: the scenario without hint, past the initial schedule (three
\* hards done), with the seventh readapt started.
C6_Witness ==
  /\ RepeatAllScenario
  /\ ~Hint
  /\ btune.is_repeating
  /\ Len(Readapts) >= 7

\* C7: with REPEAT_SOFT and softs configured, a tuner that is repeating is
\* in a soft readapt or waiting: never in a hard readapt, never in STOP.
C7_RepeatSoftOnlySofts ==
  ( /\ Behaviour.repeat_mode = BTUNE_REPEAT_SOFT
    /\ Behaviour.nsofts_before_hard > 0
    /\ btune.is_repeating )
  => btune.state \in {CLEVEL, WAITING}

\* C7 witness: REPEAT_SOFT after the initial hards, with more soft readapts
\* done than one round has and another one running.
C7_Witness ==
  /\ Behaviour.repeat_mode = BTUNE_REPEAT_SOFT
  /\ Behaviour.nsofts_before_hard > 0
  /\ Behaviour.nhards_before_stop > 0
  /\ btune.is_repeating
  /\ btune.nsofts > Behaviour.nsofts_before_hard * HardsDue
  /\ btune.state = CLEVEL

\* A hard readapt ends at i and the next hard readapt starts at j.
HardToHard(i, j) ==
  /\ i < j
  /\ hist[i] = "HARD_END"
  /\ hist[j] = "HARD"
  /\ \A k \in (i + 1)..(j - 1) : hist[k] # "HARD"

SoftsBetween(i, j) == Cardinality({k \in i..j : hist[k] = "SOFT_END"})

\* C8: with nsofts_before_hard = S > 0, for every nwaits_before_readapt,
\* exactly S soft readapts complete between the end of a hard readapt and
\* the start of the next hard readapt.
C8_SoftsBetweenHards ==
  Behaviour.nsofts_before_hard > 0 =>
    \A i, j \in 1..Len(hist) :
      HardToHard(i, j) => SoftsBetween(i, j) = Behaviour.nsofts_before_hard

\* C8 witness: two softs configured, with waits, and a hard readapt that
\* starts after the two softs that followed the previous hard.
C8_Witness ==
  /\ Behaviour.nsofts_before_hard = 2
  /\ Behaviour.nwaits_before_readapt > 0
  /\ \E i, j \in 1..Len(hist) : HardToHard(i, j) /\ SoftsBetween(i, j) = 2

\* C9: with nwaits_before_readapt = W > 0, every readapt that starts after a
\* readapt has ended comes right after exactly W waiting chunks.
C9_WaitsBeforeReadapt ==
  LET W == Behaviour.nwaits_before_readapt
  IN W > 0 =>
       \A j \in 1..Len(hist) :
         ( /\ IsReadaptStart(hist[j])
           /\ \E i \in 1..(j - 1) : hist[i] \in {"HARD_END", "SOFT_END"} )
         => /\ j - W - 1 >= 1
            /\ \A k \in (j - W)..(j - 1) : hist[k] = "WAIT"
            /\ hist[j - W - 1] # "WAIT"

\* C10: called in WAITING, btune_next_cparams writes the parameters of best
\* into the host contexts (codec, filter, split mode, clevel, shufflesize,
\* threads), leaves best as it is and adds 1 to nwaitings.
C10_WaitingWritesBest ==
  [][(btune.state = WAITING /\ host.pc = "next_cparams" /\ host'.pc = "update")
     => /\ cctx'.compcode = btune.best.compcode
        /\ cctx'.filter = btune.best.filter
        /\ cctx'.splitmode = btune.best.splitmode
        /\ cctx'.clevel = btune.best.clevel
        /\ cctx'.typesize = btune.best.shufflesize
        /\ cctx'.new_nthreads = btune.best.nthreads_comp
        /\ IF dctx # NoDctx
           THEN dctx'.new_nthreads = btune.best.nthreads_decomp
           ELSE btune'.nthreads_decomp = btune.best.nthreads_decomp
        /\ btune'.best = btune.best
        /\ btune'.nwaitings = btune.nwaitings + 1]_vars

\* C10 witness: the second waiting chunk of a tuner with a decompression
\* context has got its parameters, best being a trial that improved.
C10_Witness ==
  /\ host.pc = "update"
  /\ btune.state = WAITING
  /\ btune.nwaitings = 2
  /\ dctx # NoDctx
  /\ btune.best.clevel # 9
  /\ Params(cctx) = Params(btune.best)

\* C11: with cparams_hint, the first btune_next_cparams after btune_init
\* leaves in the host context the codec, filter, split mode and clevel that
\* the host gave as the hint.
C11_FirstTrialIsHint ==
  [][(Hint /\ host.nchunks = 0 /\ host.pc = "next_cparams")
     => Params(cctx') = Params(host.cparams)]_vars

\* The proposal of the next btune_next_cparams call, from aux_cparams = best.
Proposal == next_trial([btune EXCEPT !.aux_cparams = btune.best], cctx)

Abs(n) == IF n < 0 THEN -n ELSE n

\* C12: in every soft readapt (readapt_from = SOFT, state = CLEVEL), those
\* started by btune_init with a hint included, step_size is 1 and the trial
\* differs from best in clevel only, by at most 1.
C12_SoftStep ==
  (btune.readapt_from = SOFT /\ btune.state = CLEVEL) =>
    /\ btune.step_size = SOFT_STEP_SIZE
    /\ Abs(Proposal.clevel - btune.best.clevel) <= 1
    /\ [Proposal EXCEPT !.clevel = 0] = [btune.best EXCEPT !.clevel = 0]

ProposalWritten == host.pc = "update" /\ btune.state # STOP

\* C18 as claimed: every proposal written into the host context has
\* 1 <= clevel <= 9, whatever clevel 0 .. 9 the host's hint has.
C18_ClevelRange_Claimed ==
  ProposalWritten => cctx.clevel \in 1..MAX_CLEVEL

\* C18: every proposal written into the host context has 1 <= clevel <= 9,
\* for a tuner without hint and for a tuner whose hint has a clevel in 1 .. 9.
C18_ClevelRange ==
  (ProposalWritten /\ (Hint => host.cparams.clevel \in 1..MAX_CLEVEL))
  => cctx.clevel \in 1..MAX_CLEVEL

\* C18 witness: a hint of clevel 1 in a soft readapt going down: the
\* proposal written stays at clevel 1.
C18_Witness ==
  /\ Hint
  /\ host.cparams.clevel = 1
  /\ ProposalWritten
  /\ btune.state = CLEVEL
  /\ ~btune.best.increasing_clevel
  /\ cctx.clevel = 1

\* The fields of best that a trial can replace
BestFields(x) ==
  <<x.compcode, x.filter, x.splitmode, x.clevel, x.blocksize, x.shufflesize,
    x.nthreads_comp, x.nthreads_decomp, x.score, x.cratio>>

\* The trial of this chunk with its metrics, as btune_update measures it
Measured(ctime, cbytes) ==
  [btune.aux_cparams EXCEPT !.score = score_function(btune, ctime, cbytes, 0),
                            !.cratio = <<cctx.sourcesize, cbytes>>]

\* C13: best is replaced by the trial only inside a btune_update call whose
\* improvement decision is true.  In every step, either best's codec, filter,
\* split mode, clevel, blocksize, shufflesize, thread counts, score and
\* cratio are unchanged, or the step is a btune_update outside STOP whose
\* chunk improved and best has taken the fields of the measured trial.
C13_BestOnlyOnImprovement ==
  [][\/ BestFields(btune'.best) = BestFields(btune.best)
     \/ /\ host.pc = "update"
        /\ btune.state # STOP
        /\ \E ctime \in CTimeSet, cbytes \in CBytesSet :
             /\ trial_improved(btune, cctx, ctime, cbytes, 0)
             /\ btune' = btune_update(btune, cctx, ctime, cbytes)
             /\ BestFields(btune'.best) = BestFields(Measured(ctime, cbytes))]_vars

\* best has been replaced by a trial, and the chunk just measured, of another
\* size, has left it as it was.
C13_Witness ==
  /\ host.pc = "next_cparams"
  /\ host.nchunks = 1
  /\ btune.best.cratio[1] = SourceSize
  /\ btune.aux_cparams.cratio[1] = SourceSize
  /\ btune.aux_cparams.cratio # btune.best.cratio

\* C14 as claimed: a degenerate chunk never improves best.  In every state
\* where the host is about to call btune_update, in every comp_mode,
\* perf_mode and state of the tuner, for a chunk of
\* cbytes <= BLOSC2_MAX_OVERHEAD + typesize the improvement decision is false
\* and the call leaves best unchanged.
C14_DegenerateNeverImproves_Claimed ==
  host.pc = "update" =>
    \A ctime \in CTimeSet, cbytes \in DegenerateCBytes :
      /\ ~trial_improved(btune, cctx, ctime, cbytes, 0)
      /\ btune_update(btune, cctx, ctime, cbytes).best = btune.best

\* best without its direction flags
WithoutDirections(x) ==
  [x EXCEPT !.increasing_clevel = FALSE, !.increasing_block = FALSE,
            !.increasing_shuffle = FALSE, !.increasing_nthreads = FALSE]

\* C14: for a degenerate chunk the improvement decision is false and the
\* call leaves best's parameters and metrics (codec, filter, split mode,
\* clevel, blocksize, shufflesize, thread counts, score, cratio, ctime,
\* dtime) unchanged; only best's direction flags may be flipped.
C14_DegenerateNeverImproves ==
  host.pc = "update" =>
    \A ctime \in CTimeSet, cbytes \in DegenerateCBytes :
      /\ ~trial_improved(btune, cctx, ctime, cbytes, 0)
      /\ WithoutDirections(btune_update(btune, cctx, ctime, cbytes).best)
           = WithoutDirections(btune.best)

\* A degenerate chunk, of a higher ratio than best's, has been measured and
\* best, which a smaller chunk had improved, is still the one before.
C14_Witness ==
  /\ host.pc = "next_cparams"
  /\ btune.state # STOP
  /\ btune.aux_cparams.cratio[1] = SourceSize
  /\ btune.aux_cparams.cratio[2] \in DegenerateCBytes
  /\ btune.best.cratio[1] = SourceSize
  /\ btune.best.cratio[2] \notin DegenerateCBytes

\* C15: with the default configuration and every chunk degenerate, best's
\* codec, filter, split mode and clevel keep the values of
\* cparams_btune_default for the whole run, and the tuner reaches STOP.
C15_DegenerateRun ==
  /\ [](Params(btune.best) = Params(cparams_btune_default(Bandwidth)))
  /\ <>(btune.state = STOP)

\* The run of degenerate chunks has gone through the default schedule and
\* stopped, best still being the default.
C15_Witness ==
  /\ btune.state = STOP
  /\ btune.nhards = 2
  /\ btune.nsofts = 5
  /\ btune.aux_cparams.cratio[2] \in DegenerateCBytes
  /\ Params(btune.best) = <<BLOSC_LZ4, BLOSC_SHUFFLE, BLOSC_ALWAYS_SPLIT, 9>>

\* C16: every proposal respects the clevel caps of the mode.  The clevel that
\* btune_next_cparams has written into the host context is <= 6 when
\* comp_mode is HCR, and <= 3 when comp_mode is BALANCED and the codec
\* written is ZSTD or ZLIB.
C16_ClevelCaps ==
  ProposalWritten =>
    /\ host.config.comp_mode = BTUNE_COMP_HCR => cctx.clevel <= 6
    /\ (/\ host.config.comp_mode = BTUNE_COMP_BALANCED
        /\ cctx.compcode \in {BLOSC_ZSTD, BLOSC_ZLIB}) => cctx.clevel <= 3

\* C17: no proposal combines ZSTD with clevel 9.  The context written by
\* btune_next_cparams never has compcode = ZSTD and clevel = 9.
C17_NoZstd9 ==
  ProposalWritten => ~(cctx.compcode = BLOSC_ZSTD /\ cctx.clevel = 9)

ThreadsWithin(n) == MIN_THREADS <= n /\ n <= btune.max_threads

\* C19: the thread counts stay within MIN_THREADS .. max_threads.  In every
\* state nthreads_comp and nthreads_decomp of best are within the bounds, and
\* so are those of every proposal: the trial and the thread counts written
\* for the compression and the decompression context.  The host contexts have
\* at least one thread.
C19_ThreadBounds ==
  /\ ThreadsWithin(btune.best.nthreads_comp)
  /\ ThreadsWithin(btune.best.nthreads_decomp)
  /\ ProposalWritten =>
       /\ ThreadsWithin(btune.aux_cparams.nthreads_comp)
       /\ ThreadsWithin(btune.aux_cparams.nthreads_decomp)
       /\ ThreadsWithin(cctx.new_nthreads)
       /\ ThreadsWithin(IF dctx # NoDctx THEN dctx.new_nthreads
                        ELSE btune.nthreads_decomp)

\* A proposal written for a compression context of 1 thread and a
\* decompression context of 2, after the first chunk.
C19_Witness ==
  /\ ProposalWritten
  /\ host.nchunks = 1
  /\ dctx # NoDctx
  /\ btune.max_threads = 2
  /\ cctx.new_nthreads = 1
  /\ dctx.new_nthreads = 2

HcrCodecs == {BLOSC_ZSTD, BLOSC_ZLIB}

C21_InferenceUnavailable ==
  /\ [](host.inference = -1 =>
          /\ btune.codecs = btune_init(host.config, host.cparams, NoDctx).codecs
          /\ btune.filters = btune_init(host.config, host.cparams, NoDctx).filters)
  /\ [][host.nchunks # 0 =>
          /\ btune'.codecs = btune.codecs
          /\ btune'.filters = btune.filters]_vars

\* Without predictor the tuner has gone through its schedule to STOP, two
\* hard readapts done, with the two codecs and three filters of btune_init.
C21_Witness ==
  /\ host.inference = -1
  /\ host.nchunks = 1
  /\ btune.state = STOP
  /\ btune.nhards = 2
  /\ Len(btune.codecs) = 2
  /\ Len(btune.filters) = 3

\* The pair (codec, filter) that the predictor answers
Inferred == btune_model_inference(host.inference)

\* C22: when inference succeeds on chunk 0 with the pair (c, f), from the
\* first btune_next_cparams on the lists of codecs and filters are <<c>> and
\* <<f>>; every trial of a CODEC_FILTER phase has codec c, filter f and is
\* the first (ALWAYS_SPLIT) or the second (NEVER_SPLIT) of its phase; the
\* update of the first trial stays in the phase and the update of the second
\* ends it; and the second proposal differs from the first in the split mode
\* only.
C22_InferenceNarrows ==
  /\ []((Inferred.error = 0 /\ (host.pc = "update" \/ host.nchunks # 0)) =>
          /\ btune.codecs = <<Inferred.compcode>>
          /\ btune.filters = <<Inferred.filter>>
          /\ (ProposalWritten /\ btune.state = CODEC_FILTER) =>
               /\ cctx.compcode = Inferred.compcode
               /\ cctx.filter = Inferred.filter
               /\ \/ btune.aux_index = 1 /\ cctx.splitmode = BLOSC_ALWAYS_SPLIT
                  \/ btune.aux_index = 2 /\ cctx.splitmode = BLOSC_NEVER_SPLIT)
  /\ [][(Inferred.error = 0 /\ host.pc = "update" /\ btune.state = CODEC_FILTER) =>
          IF btune.aux_index = 1
          THEN btune'.state = CODEC_FILTER /\ btune'.aux_index = 1
          ELSE btune'.aux_index = 0]_vars
  /\ [][(/\ Inferred.error = 0
         /\ host.pc = "next_cparams"
         /\ btune.state = CODEC_FILTER
         /\ btune.aux_index = 1) =>
          /\ cctx' = [cctx EXCEPT !.splitmode = BLOSC_NEVER_SPLIT]
          /\ dctx' = dctx]_vars

\* The configuration with its unknown enum values replaced by the defaults
DefaultedConfig ==
  LET dflt == BTUNE_CONFIG_DEFAULTS
  IN [btune.config EXCEPT
        !.perf_mode = IF @ = UnknownEnum THEN dflt.perf_mode ELSE @,
        !.comp_mode = IF @ = UnknownEnum THEN dflt.comp_mode ELSE @,
        !.behaviour.repeat_mode =
           IF @ = UnknownEnum THEN dflt.behaviour.repeat_mode ELSE @]

\* C23: a configuration with an unknown perf_mode, comp_mode or repeat_mode
\* only produces a warning.  No assertion fails, no score is negative, and
\* btune_update does to the tuner what it does under the configuration with
\* the default in place of the unknown value.
C23_UnknownEnumTolerated ==
  /\ host.pc # "aborted"
  /\ btune.best.score > 0
  /\ btune.aux_cparams.score > 0
  /\ host.pc = "update" =>
       \A ctime \in CTimeSet, cbytes \in CBytesSet :
         btune_update(btune, cctx, ctime, cbytes) =
           [btune_update([btune EXCEPT !.config = DefaultedConfig],
                         cctx, ctime, cbytes)
              EXCEPT !.config = btune.config]

\* C24 as claimed: with BTUNE_LOG set, every btune_update call that processes
\* a trial (state not STOP) prints exactly one line, during the initial
\* schedule and while repeating, with or without hint.
C24_LogLinePerTrial_Claimed ==
  [][(host.pc = "update" /\ btune.state # STOP) => host'.log = 1]_vars

\* C24: with BTUNE_LOG set, a btune_update call that processes a trial prints
\* exactly one line when the tuner is not repeating at the call, and none
\* when it is; a call in STOP prints none.
C24_LogLinePerTrial ==
  [][host.pc = "update" =>
       host'.log = IF btune.state # STOP /\ ~btune.is_repeating THEN 1 ELSE 0]_vars

\* A trial has been processed while the tuner was repeating, after trials
\* that were logged, and no line was printed for it.
C24_Witness ==
  /\ host.pc = "next_cparams"
  /\ host.log = 0
  /\ btune.is_repeating
  /\ btune.state # STOP
  /\ btune.nsofts >= 2
  /\ btune.aux_cparams.cratio[1] = SourceSize

C26_BlocksizeMultiple ==
  host.pc = "compress" =>
    IF cctx.sourcesize < cctx.typesize
    THEN cctx.blocksize = 1
    ELSE /\ cctx.blocksize > 0
         /\ cctx.blocksize % cctx.typesize = 0
         /\ cctx.blocksize <= cctx.sourcesize

\* C27: the compression ratio that the entropy probe estimates, ic / oc, is
\* at least 1.0 for every non-empty block, the blocks shorter than 12 bytes
\* and the incompressible ones included.
C27_CratioAtLeastOne ==
  host.pc = "encoded" => host.cratio[1] >= host.cratio[2]

\* The number of combinations of the active candidate lists.
NCombinations == Len(btune.codecs) * Len(btune.filters) * 2

\* The combination of index k: split varying fastest, codec slowest.
Combination(k) ==
  [ compcode |-> btune.codecs[(k \div (Len(btune.filters) * 2)) + 1],
    filter |-> btune.filters[((k % (Len(btune.filters) * 2)) \div 2) + 1],
    splitmode |-> (k % 2) + 1 ]

\* C28: a CODEC_FILTER phase starts with aux_index 0; each proposal takes
\* the combination of index aux_index, which is below the number of
\* combinations (so that both list indices are within the lists), writes
\* it into the trial and the context and adds one to aux_index; the updates
\* leave aux_index and the lists alone, and the update that follows the
\* last combination, and no other, ends the phase.
C28_CodecFilterEnumeration ==
  /\ [](btune.state = CODEC_FILTER =>
          /\ host.pc = "next_cparams" =>
               /\ btune.aux_index \in 0 .. NCombinations - 1
               /\ host.nchunks = 0 => btune.aux_index = 0
          /\ host.pc = "update" =>
               /\ btune.aux_index \in 1 .. NCombinations
               /\ btune.aux_cparams.compcode = Combination(btune.aux_index - 1).compcode
               /\ btune.aux_cparams.filter = Combination(btune.aux_index - 1).filter
               /\ btune.aux_cparams.splitmode = Combination(btune.aux_index - 1).splitmode
               /\ cctx.compcode = btune.aux_cparams.compcode
               /\ cctx.filter = btune.aux_cparams.filter
               /\ cctx.splitmode = btune.aux_cparams.splitmode)
  /\ [][(btune.state # CODEC_FILTER /\ btune'.state = CODEC_FILTER)
          => btune'.aux_index = 0]_vars
  /\ [][(btune.state = CODEC_FILTER /\ host.pc = "next_cparams")
          => /\ btune'.state = CODEC_FILTER
             /\ btune'.aux_index = btune.aux_index + 1]_vars
  /\ [][(btune.state = CODEC_FILTER /\ host.pc = "update")
          => /\ btune'.codecs = btune.codecs
             /\ btune'.filters = btune.filters
             /\ IF btune.aux_index = NCombinations
                THEN btune'.state # CODEC_FILTER
                ELSE /\ btune'.state = CODEC_FILTER
                     /\ btune'.aux_index = btune.aux_index]_vars

\* The last of the twelve combinations of a second hard readapt is on
\* trial: the second codec, the third filter, no split.
C28_Witness ==
  /\ btune.state = CODEC_FILTER
  /\ host.pc = "update"
  /\ btune.nhards = 1
  /\ NCombinations = 12
  /\ btune.aux_index = 12
  /\ cctx.compcode = btune.codecs[2]
  /\ cctx.filter = btune.filters[3]
  /\ cctx.splitmode = BLOSC_NEVER_SPLIT

\* The first proposal of a CLEVEL phase is due.
FirstClevelProposal ==
  btune.state = CLEVEL /\ btune.aux_index = 0 /\ host.pc = "next_cparams"

\* C29: whenever the tuner enters CLEVEL, from CODEC_FILTER or through
\* init_soft, a direction of clevel that has ended for best is flipped
\* before the first proposal of the phase: when that proposal is due the
\* direction has not ended, and the proposal has a clevel other than best's.
C29_FlipOnEnteringClevel ==
  /\ [](FirstClevelProposal => ~has_ended_clevel(btune))
  /\ [][FirstClevelProposal => cctx'.clevel # btune.best.clevel]_vars

\* The tuner r that an update gives is still in the phase of btune.
PhaseContinues(r) == r.state = btune.state /\ r.aux_index = btune.aux_index

\* The tuner with the clevel direction of best flipped.
Flipped == [btune EXCEPT !.best.increasing_clevel = ~@]

\* C30 as claimed: in CLEVEL an update of the first trial of the phase that
\* does not improve flips the clevel direction and the phase continues; an
\* update of a later trial that does not improve ends the phase.
C30_ClevelFirstTrial_Claimed ==
  (host.pc = "update" /\ btune.state = CLEVEL) =>
    \A ctime \in CTimeSet, cbytes \in CBytesSet :
      ~trial_improved(btune, cctx, ctime, cbytes, 0) =>
        LET r == btune_update(btune, cctx, ctime, cbytes)
        IN IF btune.aux_index = 1
           THEN /\ PhaseContinues(r)
                /\ r.best.increasing_clevel = ~btune.best.increasing_clevel
           ELSE r.aux_index = 0

\* C30: in CLEVEL an update of the first trial of the phase that does not
\* improve flips the clevel direction; the phase continues, with a further
\* trial in the new direction, unless the new direction has ended for best
\* (has_ended_clevel), in which case the phase ends in that update.  An
\* update of a later trial that does not improve ends the phase.
C30_ClevelFirstTrial ==
  /\ []((host.pc = "update" /\ btune.state = CLEVEL) =>
          \A ctime \in CTimeSet, cbytes \in CBytesSet :
            ~trial_improved(btune, cctx, ctime, cbytes, 0) =>
              LET r == btune_update(btune, cctx, ctime, cbytes)
              IN IF btune.aux_index = 1 /\ ~has_ended_clevel(Flipped)
                 THEN /\ PhaseContinues(r)
                      /\ r.best.increasing_clevel = ~btune.best.increasing_clevel
                 ELSE r.aux_index = 0)
  /\ [][(host.pc = "next_cparams" /\ btune.state = CLEVEL /\ btune.aux_index >= 1)
          => IF btune.best.increasing_clevel
             THEN cctx'.clevel > btune.best.clevel
             ELSE cctx'.clevel < btune.best.clevel]_vars

\* The first trial of a CLEVEL phase has been measured without improving,
\* best's direction is the opposite of the trial's and the phase goes on.
C30_Witness ==
  /\ host.pc = "next_cparams"
  /\ btune.state = CLEVEL
  /\ btune.aux_index = 1
  /\ btune.aux_cparams.cratio[1] = SourceSize
  /\ btune.aux_cparams.clevel # btune.best.clevel
  /\ btune.best.increasing_clevel # btune.aux_cparams.increasing_clevel

\* A trial of a hard readapt is being proposed or measured.
InHardReadapt ==
  btune.readapt_from = HARD /\ btune.state \in {CODEC_FILTER, CLEVEL}

\* The hard readapt is the last one of the initial schedule: the hards
\* ended so far are one less than nhards_before_stop (which counts the seed
\* hard readapt of a tuner without hint).
LastInitialHard ==
  btune.nhards = btune.config.behaviour.nhards_before_stop - 1

\* C31: during the last hard readapt of the initial schedule step_size is
\* SOFT_STEP_SIZE for all of its trials, and during every other hard
\* readapt, the earlier ones and those run while repeating, it is
\* HARD_STEP_SIZE; with and without hint, for every number of softs and waits.
C31_StepSizeOfHards ==
  InHardReadapt =>
    btune.step_size = IF LastInitialHard THEN SOFT_STEP_SIZE ELSE HARD_STEP_SIZE

\* The last hard readapt of a hinted tuner, begun after softs and a wait,
\* is on trial with step_size 1, an earlier hard readapt having ended.
C31_Witness ==
  /\ InHardReadapt
  /\ host.pc = "update"
  /\ btune.config.cparams_hint
  /\ btune.config.behaviour.nhards_before_stop = 2
  /\ btune.nhards = 1
  /\ btune.nsofts >= 1
  /\ btune.nwaitings >= 1
  /\ btune.step_size = SOFT_STEP_SIZE

\* C32: in the CODEC_FILTER phase every trial whose codec is BLOSCLZ is
\* proposed with splitmode ALWAYS_SPLIT, whatever the enumeration index: in
\* the trial record and in the host context.
C32_BlosclzAlwaysSplit ==
  (ProposalWritten /\ btune.state = CODEC_FILTER
     /\ btune.aux_cparams.compcode = BLOSC_BLOSCLZ) =>
    /\ btune.aux_cparams.splitmode = BLOSC_ALWAYS_SPLIT
    /\ cctx.splitmode = BLOSC_ALWAYS_SPLIT

\* The states that may follow a state from one btune_update to the next.
Edges(state) ==
  CASE state = CODEC_FILTER -> {CODEC_FILTER, CLEVEL}
    [] state = CLEVEL -> {CLEVEL, CODEC_FILTER, WAITING, STOP}
    [] state = WAITING -> {WAITING, CLEVEL, CODEC_FILTER}
    [] state = STOP -> {STOP}
    [] OTHER -> {}

\* C33: the state changes along the edges above only, in btune_update and
\* nowhere else; an update in CODEC_FILTER leaves the counters nhards,
\* nsofts and nwaitings alone, so that a hard readapt runs a CLEVEL trial
\* before it is counted; SHUFFLE_SIZE, THREADS, BLOCKSIZE and MEMCPY are
\* never entered.
C33_StateEdges ==
  /\ [](btune.state \in {CODEC_FILTER, CLEVEL, WAITING, STOP})
  /\ [][btune'.state \in Edges(btune.state)]_vars
  /\ [][host.pc # "update" => btune'.state = btune.state]_vars
  /\ [][btune.state = CODEC_FILTER =>
          /\ btune'.nhards = btune.nhards
          /\ btune'.nsofts = btune.nsofts
          /\ btune'.nwaitings = btune.nwaitings]_vars

\* A tuner has left WAITING for the hard readapt, whose enumeration has
\* ended, and is on the first trial of CLEVEL with the hard not yet counted.
C33_Witness ==
  /\ btune.state = CLEVEL
  /\ btune.readapt_from = HARD
  /\ btune.aux_index = 1
  /\ btune.nwaitings >= 1
  /\ btune.nsofts >= 1
  /\ btune.nhards = 1
  /\ host.pc = "update"

\* C34: when the tuner has entered STOP the codec, filter, split mode and
\* clevel left in the host context are those of best, and no later call
\* changes them: the chunks compressed after the stop use best's parameters.
C34_StopLeavesBest ==
  btune.state = STOP => Params(cctx) = Params(btune.best)

\* C35: best describes parameters that were used.  Whenever a btune_update
\* replaces best, the codec, filter, split mode and clevel that best takes
\* are those that btune_next_cparams wrote into the host context for the
\* trial, in every comp_mode.
C35_BestWasUsed ==
  [][(host.pc = "update" /\ BestFields(btune'.best) # BestFields(btune.best))
       => Params(btune'.best) = Params(cctx)]_vars

\* C36: every CLEVEL phase ends within 10 trials: in state CLEVEL aux_index
\* never exceeds 10, for every comp_mode, codec, starting clevel, direction,
\* step_size and sequence of improvement outcomes.
C36_ClevelPhaseEnds ==
  btune.state = CLEVEL => btune.aux_index <= 10

\* C37: the readapt scheduler never evaluates a modulo by zero, whatever the
\* uint32_t counts of the behaviour (UINT32_MAX included), with or without
\* hint and in every repeat mode.
C37_NoModuloByZero ==
  host.pc # "modulo_by_zero"

\* C38: btune_init with a NULL configuration completes and leaves the tuner
\* as btune_init with BTUNE_CONFIG_DEFAULTS does.
C38_NullConfigIsDefaults ==
  [][host.pc = "init" =>
       /\ host'.pc = "next_cparams"
       /\ btune' = btune_init(BTUNE_CONFIG_DEFAULTS, cctx, dctx)]_vars

\* The tuner with the compression times it has recorded blanked.
WithoutCtime(b) == [b EXCEPT !.best.ctime = 0, !.aux_cparams.ctime = 0]

\* C39: in perf_mode DECOMP nothing the tuner decides depends on ctime.  Two
\* runs that agree but for the ctime recorded stay so: btune_update with any
\* two ctime gives the same state, best and counters, and
\* btune_next_cparams writes the same proposal.
C39_DecompIgnoresCtime ==
  /\ host.pc = "update" =>
       \A t1 \in CTimes, t2 \in CTimes, cbytes \in CBytesSet :
         WithoutCtime(btune_update(btune, cctx, t1, cbytes))
           = WithoutCtime(btune_update(WithoutCtime(btune), cctx, t2, cbytes))
  /\ host.pc = "next_cparams" =>
       LET r1 == btune_next_cparams(btune, cctx, dctx, host)
           r2 == btune_next_cparams(WithoutCtime(btune), cctx, dctx, host)
       IN /\ r1.c = r2.c
          /\ r1.d = r2.d
          /\ WithoutCtime(r1.b) = WithoutCtime(r2.b)

\* A trial timed 256 has been rejected against a best timed 16, in a later
\* readapt.
C39_Witness ==
  /\ host.pc = "next_cparams"
  /\ btune.config.perf_mode = BTUNE_PERF_DECOMP
  /\ btune.best.ctime = 16
  /\ btune.aux_cparams.ctime = 256
  /\ btune.nhards >= 1
  /\ btune.state = CLEVEL

\* The same tuner configured with perf_mode BALANCED.
AsBalanced(b) == [b EXCEPT !.config.perf_mode = BTUNE_PERF_BALANCED]

\* C40: perf_mode COMP and perf_mode BALANCED are equivalent in this build.
\* A tuner of COMP and the same tuner of BALANCED are initialised alike
\* (candidate codecs and filters included), btune_update gives them the same
\* scores, best and state for every chunk, and btune_next_cparams writes the
\* same proposal.
C40_CompAsBalanced ==
  /\ AsBalanced(btune_init(host.config, host.cparams, dctx))
       = btune_init([host.config EXCEPT !.perf_mode = BTUNE_PERF_BALANCED],
                    host.cparams, dctx)
  /\ host.pc = "update" =>
       \A ctime \in CTimes, cbytes \in CBytesSet :
         AsBalanced(btune_update(btune, cctx, ctime, cbytes))
           = btune_update(AsBalanced(btune), cctx, ctime, cbytes)
  /\ host.pc = "next_cparams" =>
       LET r1 == btune_next_cparams(btune, cctx, dctx, host)
           r2 == btune_next_cparams(AsBalanced(btune), cctx, dctx, host)
       IN /\ r1.c = r2.c
          /\ r1.d = r2.d
          /\ AsBalanced(r1.b) = r2.b

\* A slow chunk has become best and the first tuning of ZSTD is proposed
\* with clevel 3.
C40_Witness ==
  /\ host.pc = "update"
  /\ btune.config.perf_mode = BTUNE_PERF_COMP
  /\ btune.state = CODEC_FILTER
  /\ btune.nhards = 0
  /\ btune.aux_cparams.compcode = BLOSC_ZSTD
  /\ cctx.clevel = 3
  /\ btune.best.ctime = 256
  /\ btune.best.score = 256 + 256

====
